---- MODULE Spec2Model ----
(***************************************************************************)
(* Direct-messaging core of the social-media application: the Conversation *)
(* and DirectMessage tables, the REST views of users/api.py and the        *)
(* WebSocket ChatConsumer of users/consumers.py.                           *)
(*                                                                         *)
(* Every database statement is one atomic step (Django autocommit, no      *)
(* transaction.atomic anywhere in these handlers), so a handler is a short *)
(* sequence of steps that interleaves with the other handlers.  A consumer *)
(* dispatches one inbound frame or channel-layer event at a time.          *)
(***************************************************************************)
EXTENDS Integers, Sequences, FiniteSets, TLC

\* ------------------------------------------------------------------ bounds
MaxReqs == 3        \* inbound frames and REST requests started in one run
MaxMsgs == 2        \* DirectMessage rows
MaxConvs == 2       \* Conversation rows created by conversations_view

\* ------------------------------------------------------------ the universe
Users == {"A", "B", "C"}
UserId == [A |-> 1, B |-> 2, C |-> 3]
Conns == {"a1", "a2", "b1"}       \* C is reachable over REST only
ConnUser == [a1 |-> "A", a2 |-> "A", b1 |-> "B"]
NoUser == "none"
NoConv == 0         \* conversation_id absent from the frame
BogusConv == 9      \* a well-formed id that names no Conversation row
Contents == {<<" ">>, <<" ", "h", " ">>}     \* 'content' as the client sent it
\* REST bodies: content and message_type
Posts == {<<<<" ">>, "text">>, <<<<" ">>, "image">>, <<<<"h">>, "text">>}

VARIABLES
    conversations,  \* Conversation table: sequence of rows, index = id
    messages,       \* DirectMessage table: sequence of rows, index = id
    follows,        \* Follow table: set of <<follower, following>>
    clock,          \* timezone.now()
    groups,         \* channel layer groups: user -> set of connections
    chan,           \* channel layer queue of each consumer
    sent,           \* frames each consumer has written to its socket
    ws,             \* each consumer's position and locals
    rest,           \* each user's REST request in flight
    response,       \* the HTTP response written last
    issued,         \* number of requests started
    last_seen,      \* Profile.last_seen of each user (0: never written)
    streams,        \* Livestream table: id -> row
    chat,           \* LivestreamMessage table: sequence of rows, index = id
    signals,        \* LivestreamSignal table: sequence of rows, index = id;
                    \* a deleted row stays as a tombstone (ids are not reused)
    session,        \* django_session: browser -> the user its session holds
    profiles,       \* User / Profile fields the profile form edits, per user
    web,            \* each browser's page request in flight
    likes,          \* likes of each post and comment: item -> set of users
    dislikes,       \* dislikes of each post and comment
    payments,       \* Payment table: reference -> row
    subscriptions,  \* Subscription table: user -> row (one to one)
    emails,         \* confirmation e-mails sent: the payment references
    hook            \* the Paystack webhook request in flight

vars == <<conversations, messages, follows, clock, groups, chan, sent, ws,
          rest, response, issued, last_seen, streams, chat, signals,
          session, profiles, web, likes, dislikes,
          payments, subscriptions, emails, hook>>

\* the tables of blog/models.py
blog == <<streams, chat, signals>>

\* the session store and the tables behind the server-rendered pages
site == <<session, profiles, web, likes, dislikes,
          payments, subscriptions, emails, hook>>

\* the tables of payments/models.py, the mail outbox and the webhook
billing == <<payments, subscriptions, emails, hook>>

\* Post.likes / dislikes and Comment.likes / dislikes
reactions == <<likes, dislikes>>

\* ------------------------------------------------------------ pure helpers
RECURSIVE lstrip(_)
lstrip(s) ==
    IF s # <<>> /\ Head(s) = " " THEN lstrip(Tail(s)) ELSE s

RECURSIVE rstrip(_)
rstrip(s) ==
    IF s # <<>> /\ s[Len(s)] = " " THEN rstrip(SubSeq(s, 1, Len(s) - 1)) ELSE s

strip(s) == rstrip(lstrip(s))

\* QuerySet.first() on an unordered queryset orders by primary key.
first(S) ==
    IF S = {} THEN NoUser
    ELSE CHOOSE u \in S : \A v \in S : UserId[u] <= UserId[v]

ConvExists(k) == k \in 1..Len(conversations)

\* Conversation.get_other_participant / participants.exclude(id=user.id).first()
get_other_participant(k, u) == first(conversations[k].participants \ {u})

MessagesOf(k) == {i \in 1..Len(messages) : messages[i].conversation = k}

\* QuerySet.order_by('-created_at'): newest first
RECURSIVE order_by_created_at_desc(_)
order_by_created_at_desc(S) ==
    IF S = {} THEN <<>>
    ELSE LET i == CHOOSE x \in S :
                    \A y \in S : messages[x].created_at >= messages[y].created_at
         IN <<i>> \o order_by_created_at_desc(S \ {i})

\* QuerySet.order_by('created_at') over a set of message ids
RECURSIVE order_by_created_at(_)
order_by_created_at(S) ==
    IF S = {} THEN <<>>
    ELSE LET i == CHOOSE x \in S :
                    \A y \in S : messages[x].created_at <= messages[y].created_at
         IN <<i>> \o order_by_created_at(S \ {i})

\* conversation.messages.order_by('created_at').first(); 0 when there is none
first_message(k) ==
    IF MessagesOf(k) = {} THEN 0 ELSE order_by_created_at(MessagesOf(k))[1]

\* DirectMessage.objects.create(...)
NewMessage(k, u, content, mtype, now) ==
    [conversation |-> k, sender |-> u, content |-> content,
     message_type |-> mtype, created_at |-> now, read_at |-> 0,
     is_unsent |-> FALSE, is_encrypted |-> FALSE]

\* ------------------------------------------------------------------ frames
Frame(type, k, m, content, u, n, text) ==
    [type |-> type, conv |-> k, msg |-> m, content |-> content,
     user |-> u, count |-> n, text |-> text]

ErrorFrame(text) == Frame("error", NoConv, 0, <<>>, NoUser, 0, text)

\* the 'message' dictionary save_message returns for the row m it created:
\* the content is that of the instance in memory, not a later read of the row
MessageData(type, m, content) ==
    Frame(type, messages[m].conversation, m, content, messages[m].sender, 0, "")

\* group_send that ignores the room name and reaches every consumer
group_send_everyone(u, ev) ==
    [d \in Conns |-> Append(chan[d], ev)]

\* channel_layer.group_send(room, event): one copy per registered consumer;
\* the room of no user ("chat_user_None") has no member
group_send(u, ev) ==
    [d \in Conns |-> IF u \in Users /\ d \in groups[u]
                     THEN Append(chan[d], ev) ELSE chan[d]]

send(c, frame) == [sent EXCEPT ![c] = Append(@, frame)]

IdleWs ==
    [pc |-> "idle", conv |-> NoConv, content |-> <<>>, mtype |-> "text",
     isreq |-> FALSE, status |-> "none", recipient |-> NoUser, msg |-> 0,
     count |-> 0]

\* the user has no Subscription row
NoSubscription ==
    [tier |-> "none", status |-> "none", expires_at |-> 0, cancelled_at |-> 0]

IdleRest ==
    [pc |-> "idle", op |-> "none", conv |-> NoConv, content |-> <<>>,
     mtype |-> "text", isreq |-> FALSE, status |-> "none", target |-> NoUser,
     msg |-> 0, enc |-> FALSE, stream |-> 0, excess |-> {},
     inst |-> [host |-> NoUser, status |-> "none", viewer_count |-> 0,
               peak_viewers |-> 0, total_likes |-> 0],
     ref |-> "none", sub |-> NoSubscription]

Response(u, code, body) ==
    [user |-> u, code |-> code, body |-> body]

\* the view returns: the response is written and the request is over
Respond(u, code, body) ==
    /\ rest' = [rest EXCEPT ![u] = IdleRest]
    /\ response' = Response(u, code, body)

CanStart == issued < MaxReqs

\* the rows stored and the rows that handlers in flight are about to insert
CanCreate ==
    Len(messages)
    + Cardinality({c \in Conns : ws[c].pc = "create"})
    + Cardinality({u \in Users : rest[u].pc = "create" /\ rest[u].op = "post"})
    < MaxMsgs

\* ------------------------------------------------------ JWTAuthMiddleware
Anonymous == "anonymous"            \* AnonymousUser()

\* the ?token= query parameter: absent, not a JWT of this server, a JWT whose
\* exp has passed, or a verified JWT with its user_id claim (0: no such claim)
Token(kind, user_id) == [kind |-> kind, user_id |-> user_id]
NoUserId == 0
GhostUserId == 4                    \* the id of no row of the User table
\* get_user_from_token that does not verify exp
get_user_from_token_noexp(token) ==
    IF token.kind \in {"missing", "garbage"} THEN Anonymous
    ELSE IF \E u \in Users : UserId[u] = token.user_id
         THEN CHOOSE u \in Users : UserId[u] = token.user_id
    ELSE Anonymous

\* JWTAuthMiddleware.__call__ and get_user_from_token: scope['user']
get_user_from_token(token) ==
    IF token.kind # "valid" THEN Anonymous
    ELSE IF \E u \in Users : UserId[u] = token.user_id
         THEN CHOOSE u \in Users : UserId[u] = token.user_id
    ELSE Anonymous

\* the tokens a client may present on connection c: c is this user's socket
\* whenever the token names a user at all
TokensOf(c) ==
    {Token("missing", NoUserId), Token("garbage", NoUserId)}
    \cup {Token(kind, UserId[ConnUser[c]]) : kind \in {"expired", "valid"}}
    \cup {Token("valid", NoUserId), Token("valid", GhostUserId)}

\* a handler that does not touch the profile
update_user_last_seen_skip(u) == last_seen

\* update_user_last_seen: profile.last_seen = timezone.now(), a later time
\* at every call; last_seen[u] is the ordinal of the latest write
update_user_last_seen(u) == [last_seen EXCEPT ![u] = @ + 1]

\* ------------------------------------------------- ChatConsumer, lifecycle
\* the handshake: the middleware resolves scope['user'], then connect()
\* either closes the socket or joins the user's room and accepts
handshake(c, token) ==
    LET user == get_user_from_token(token)
    IN /\ ws[c].pc = "new"
       /\ IF user = Anonymous
          THEN /\ ws' = [ws EXCEPT ![c].pc = "rejected"]
               /\ UNCHANGED <<groups, sent, last_seen>>
          ELSE /\ last_seen' = update_user_last_seen(user)
               /\ groups' = [groups EXCEPT ![user] = @ \cup {c}]
               /\ sent' = send(c, Frame("connection_established", NoConv, 0,
                                        <<>>, NoUser, 0, ""))
               /\ ws' = [ws EXCEPT ![c] = IdleWs]
       /\ UNCHANGED <<conversations, messages, follows, clock, chan, rest,
                      response, issued, blog, site>>

\* connect(): every modelled connection carries a valid credential
connect(c) ==
    /\ ws[c].pc = "new"
    /\ last_seen' = update_user_last_seen(ConnUser[c])
    /\ groups' = [groups EXCEPT ![ConnUser[c]] = @ \cup {c}]
    /\ sent' = send(c, Frame("connection_established", NoConv, 0, <<>>,
                             NoUser, 0, ""))
    /\ ws' = [ws EXCEPT ![c] = IdleWs]
    /\ UNCHANGED <<conversations, messages, follows, clock, chan, rest, response, issued>>
    /\ UNCHANGED <<blog, site>>

\* disconnect(): leaves the room; events still queued for it are lost.  A
\* socket that connect() closed has no room_group_name and leaves nothing.
disconnect(c) ==
    /\ ws[c].pc \in {"idle", "rejected"}
    /\ groups' = IF ws[c].pc = "idle"
                 THEN [groups EXCEPT ![ConnUser[c]] = @ \ {c}]
                 ELSE groups
    /\ chan' = [chan EXCEPT ![c] = <<>>]
    /\ ws' = [ws EXCEPT ![c].pc = "closed"]
    /\ UNCHANGED <<conversations, messages, follows, clock, sent, rest, response, issued>>
    /\ UNCHANGED <<last_seen, blog, site>>

\* chat_message / typing_indicator / messages_read: the consumer takes the
\* next channel-layer event and writes the matching frame to its socket
dispatch_event(c) ==
    /\ ws[c].pc = "idle"
    /\ chan[c] # <<>>
    /\ sent' = send(c, [Head(chan[c]) EXCEPT !.type =
                          CASE @ = "chat_message" -> "new_message"
                            [] @ = "typing_indicator" -> "typing"
                            [] OTHER -> @])
    /\ chan' = [chan EXCEPT ![c] = Tail(@)]
    /\ UNCHANGED <<conversations, messages, follows, clock, groups, ws, rest, response,
                   issued>>
    /\ UNCHANGED <<last_seen, blog, site>>

\* ------------------------------------------------- ChatConsumer, receive
\* inbound text frames that none of the three handlers takes (the quotes of
\* the JSON text are left out)
RawFrames == {"{oops", "[1]", "7", "{}", "{type: wave}", "{type: ping}"}

\* json.loads(text_data): JSONDecodeError, or the value and, for an object,
\* what data.get('type') returns
json_loads(text) ==
    CASE text = "{oops" -> [error |-> TRUE, object |-> FALSE, type |-> "None"]
      [] text = "[1]" -> [error |-> FALSE, object |-> FALSE, type |-> "None"]
      [] text = "7" -> [error |-> FALSE, object |-> FALSE, type |-> "None"]
      [] text = "{}" -> [error |-> FALSE, object |-> TRUE, type |-> "None"]
      [] text = "{type: wave}" -> [error |-> FALSE, object |-> TRUE, type |-> "wave"]
      [] text = "{type: ping}" -> [error |-> FALSE, object |-> TRUE, type |-> "ping"]

\* receive(): last_seen first, then json.loads and the dispatch on 'type'.
\* JSONDecodeError is the only exception caught: data.get on a list or a
\* number raises AttributeError out of the consumer, which ends it without
\* disconnect() being run; an object of another type falls through.
receive(c, text) ==
    LET u == ConnUser[c]
        data == json_loads(text)
    IN /\ ws[c].pc = "idle"
       /\ CanStart
       /\ issued' = issued + 1
       /\ last_seen' = update_user_last_seen(u)
       /\ IF data.error
          THEN /\ sent' = send(c, ErrorFrame("Invalid JSON"))
               /\ UNCHANGED ws
          ELSE IF ~data.object
          THEN /\ ws' = [ws EXCEPT ![c].pc = "crashed"]
               /\ UNCHANGED sent
          ELSE IF data.type = "ping"
          THEN /\ sent' = send(c, Frame("pong", NoConv, 0, <<>>, NoUser, 0, ""))
               /\ UNCHANGED ws
          ELSE UNCHANGED <<sent, ws>>
       /\ UNCHANGED <<conversations, messages, follows, clock, groups, chan,
                      rest, response, blog, site>>

\* ------------------------------------------- ChatConsumer, chat_message
\* save_message without the pending-request check of lines 207-212
SaveMessageError_nogate(u, k) ==
    IF ~ConvExists(k) THEN "Conversation not found"
    ELSE IF u \notin conversations[k].participants
         THEN "Not a participant in this conversation"
    ELSE ""

\* save_message without the participant check of lines 203-205
SaveMessageError_anyone(u, k) ==
    IF ~ConvExists(k) THEN "Conversation not found"
    ELSE IF /\ conversations[k].is_request
            /\ conversations[k].request_status = "pending"
            /\ first_message(k) # 0
            /\ messages[first_message(k)].sender # u
         THEN "Cannot send messages to pending requests"
    ELSE ""

\* save_message, lines 200-215: the reads made before the insert
SaveMessageError(u, k) ==
    IF ~ConvExists(k) THEN "Conversation not found"
    ELSE IF u \notin conversations[k].participants
         THEN "Not a participant in this conversation"
    ELSE IF /\ conversations[k].is_request
            /\ conversations[k].request_status = "pending"
            /\ first_message(k) # 0
            /\ messages[first_message(k)].sender # u
         THEN "Cannot send messages to pending requests"
    ELSE ""

\* receive -> handle_chat_message -> save_message up to the insert
handle_chat_message(c, k, raw, mtype) ==
    LET u == ConnUser[c]
        content == strip(raw)
    IN /\ ws[c].pc = "idle"
       /\ CanStart
       /\ issued' = issued + 1
       /\ last_seen' = update_user_last_seen(u)
       /\ IF k = NoConv \/ content = <<>>
          THEN /\ sent' = send(c, ErrorFrame("Missing conversation_id or content"))
               /\ UNCHANGED ws
          ELSE IF SaveMessageError(u, k) # ""
          THEN /\ sent' = send(c, ErrorFrame(SaveMessageError(u, k)))
               /\ UNCHANGED ws
          ELSE /\ CanCreate
               /\ ws' = [ws EXCEPT ![c] =
                           [IdleWs EXCEPT !.pc = "create", !.conv = k,
                              !.content = content, !.mtype = mtype,
                              !.isreq = conversations[k].is_request,
                              !.status = conversations[k].request_status,
                              !.recipient = get_other_participant(k, u)]]
               /\ UNCHANGED sent
       /\ UNCHANGED <<conversations, messages, follows, clock, groups, chan, rest, response>>
       /\ UNCHANGED <<blog, site>>

\* save_message, lines 217-227: insert the row, then conversation.save()
\* writes every column of the instance loaded at line 201
save_message(c) ==
    LET w == ws[c]
    IN /\ w.pc = "create"
       /\ messages' = Append(messages,
              NewMessage(w.conv, ConnUser[c], w.content, w.mtype, clock + 1))
       /\ conversations' = [conversations EXCEPT ![w.conv] =
              [@ EXCEPT !.is_request = w.isreq, !.request_status = w.status,
                        !.updated_at = clock + 2]]
       /\ clock' = clock + 2
       /\ ws' = [ws EXCEPT ![c].pc = "fanout", ![c].msg = Len(messages) + 1]
       /\ UNCHANGED <<follows, groups, chan, sent, rest, response, issued>>
       /\ UNCHANGED <<last_seen, blog, site>>

\* fan_out that confirms to the sender's whole room instead of this socket
fan_out_room(c) ==
    LET w == ws[c]
        toRecipient == group_send(w.recipient,
                                  MessageData("chat_message", w.msg, w.content))
    IN /\ w.pc = "fanout"
       /\ chan' = [d \in Conns |->
                     IF d \in groups[ConnUser[c]] \ {c}
                     THEN Append(toRecipient[d],
                                 MessageData("message_sent", w.msg, w.content))
                     ELSE toRecipient[d]]
       /\ sent' = send(c, MessageData("message_sent", w.msg, w.content))
       /\ ws' = [ws EXCEPT ![c] = IdleWs]
       /\ UNCHANGED <<conversations, messages, follows, clock, groups, rest,
                      response, issued>>
       /\ UNCHANGED <<last_seen, blog, site>>

\* handle_chat_message, lines 113-127: fan out, then confirm to this socket
fan_out(c) ==
    LET w == ws[c]
    IN /\ w.pc = "fanout"
       /\ chan' = group_send(w.recipient,
                              MessageData("chat_message", w.msg, w.content))
       /\ sent' = send(c, MessageData("message_sent", w.msg, w.content))
       /\ ws' = [ws EXCEPT ![c] = IdleWs]
       /\ UNCHANGED <<conversations, messages, follows, clock, groups, rest, response,
                      issued>>
       /\ UNCHANGED <<last_seen, blog, site>>

\* --------------------------------------- ChatConsumer, typing and mark_read
\* get_conversation_recipient: no participant check
get_conversation_recipient(u, k) ==
    IF ConvExists(k) THEN get_other_participant(k, u) ELSE NoUser

handle_typing(c, k, is_typing) ==
    LET u == ConnUser[c]
        recipient_id == get_conversation_recipient(u, k)
    IN /\ ws[c].pc = "idle"
       /\ CanStart
       /\ issued' = issued + 1
       /\ last_seen' = update_user_last_seen(u)
       /\ chan' = IF recipient_id # NoUser
                  THEN group_send(recipient_id,
                         Frame("typing_indicator", k, 0, <<>>, u,
                               IF is_typing THEN 1 ELSE 0, ""))
                  ELSE chan
       /\ UNCHANGED <<conversations, messages, follows, clock, groups, sent, ws,
                      rest, response>>
       /\ UNCHANGED <<blog, site>>

\* the queryset without read_at__isnull=True
UnreadFor_all(u, k) ==
    {i \in MessagesOf(k) : messages[i].sender # u}

\* the queryset of mark_messages_read, lines 263-266
UnreadFor(u, k) ==
    {i \in MessagesOf(k) : messages[i].read_at = 0 /\ messages[i].sender # u}

\* handle_mark_read -> mark_messages_read up to messages.count()
handle_mark_read(c, k) ==
    LET u == ConnUser[c]
    IN /\ ws[c].pc = "idle"
       /\ CanStart
       /\ issued' = issued + 1
       /\ last_seen' = update_user_last_seen(u)
       /\ ws' = IF k # NoConv /\ ConvExists(k)
                THEN [ws EXCEPT ![c] =
                        [IdleWs EXCEPT !.pc = "mr_update", !.conv = k,
                           !.count = Cardinality(UnreadFor(u, k))]]
                ELSE ws
       /\ UNCHANGED <<conversations, messages, follows, clock, groups, chan,
                      sent, rest, response>>
       /\ UNCHANGED <<blog, site>>

\* mark_messages_read, line 269: messages.update(read_at=timezone.now())
mark_messages_read(c) ==
    LET w == ws[c]
    IN /\ w.pc = "mr_update"
       /\ messages' = [i \in 1..Len(messages) |->
                         IF i \in UnreadFor(ConnUser[c], w.conv)
                         THEN [messages[i] EXCEPT !.read_at = clock + 1]
                         ELSE messages[i]]
       /\ clock' = clock + 1
       /\ ws' = [ws EXCEPT ![c].pc = "mr_notify"]
       /\ UNCHANGED <<conversations, follows, groups, chan, sent, rest, response, issued>>
       /\ UNCHANGED <<last_seen, blog, site>>

\* handle_mark_read, lines 155-167: notify the other user
notify_read(c) ==
    LET w == ws[c]
        u == ConnUser[c]
        recipient_id == get_conversation_recipient(u, w.conv)
    IN /\ w.pc = "mr_notify"
       /\ chan' = IF recipient_id # NoUser
                  THEN group_send(recipient_id,
                         Frame("messages_read", w.conv, 0, <<>>, u, w.count, ""))
                  ELSE chan
       /\ ws' = [ws EXCEPT ![c] = IdleWs]
       /\ UNCHANGED <<conversations, messages, follows, clock, groups, sent,
                      rest, response, issued>>
       /\ UNCHANGED <<last_seen, blog, site>>

\* ------------------------------------------- REST, conversation messages
IsParticipant(u, k) == ConvExists(k) /\ u \in conversations[k].participants

\* conversation_messages_view, GET: mark the caller's unread messages read,
\* then serialize the ordered queryset
conversation_messages_get(u, k) ==
    /\ rest[u].pc = "idle"
    /\ CanStart
    /\ issued' = issued + 1
    /\ IF ~IsParticipant(u, k)
       THEN /\ Respond(u, 404, <<>>)
            /\ UNCHANGED <<messages, clock>>
       ELSE /\ messages' = [i \in 1..Len(messages) |->
                              IF i \in UnreadFor(u, k)
                              THEN [messages[i] EXCEPT !.read_at = clock + 1]
                              ELSE messages[i]]
            /\ clock' = clock + 1
            /\ Respond(u, 200, order_by_created_at(MessagesOf(k)))
    /\ UNCHANGED <<conversations, follows, groups, chan, sent, ws>>
    /\ UNCHANGED <<last_seen, blog, site>>

MaxLength == 5000               \* of a message sent in the clear
MaxEncryptedLength == 10000     \* of a message with is_encrypted set

\* line 584: max_length = 10000 if is_encrypted else 5000
max_length(is_encrypted) ==
    IF is_encrypted THEN MaxEncryptedLength ELSE MaxLength

\* conversation_messages_view, POST, lines 558-586: lookup and validation
conversation_messages_send(u, k, raw, mtype, is_encrypted) ==
    LET content == strip(raw)
    IN /\ rest[u].pc = "idle"
       /\ CanStart
       /\ issued' = issued + 1
       /\ IF ~IsParticipant(u, k)
          THEN Respond(u, 404, <<>>)
          ELSE IF content = <<>> /\ mtype = "text"
          THEN Respond(u, 400, <<>>)
          ELSE IF Len(content) > max_length(is_encrypted)
          THEN Respond(u, 400, <<>>)
          ELSE /\ CanCreate
               /\ rest' = [rest EXCEPT ![u] =
                     [IdleRest EXCEPT !.pc = "create", !.op = "post",
                        !.conv = k, !.content = content, !.mtype = mtype,
                        !.enc = is_encrypted,
                        !.isreq = conversations[k].is_request,
                        !.status = conversations[k].request_status]]
               /\ UNCHANGED response
       /\ UNCHANGED <<conversations, messages, follows, clock, groups, chan,
                      sent, ws>>
       /\ UNCHANGED <<last_seen, blog, site>>

\* lines 588-601: insert the row, save(update_fields=['updated_at'])
conversation_messages_create(u) ==
    LET r == rest[u]
    IN /\ r.pc = "create" /\ r.op = "post"
       /\ messages' = Append(messages,
              [NewMessage(r.conv, u, r.content, r.mtype, clock + 1)
                  EXCEPT !.is_encrypted = r.enc])
       /\ conversations' = [conversations EXCEPT ![r.conv].updated_at = clock + 2]
       /\ clock' = clock + 2
       /\ rest' = [rest EXCEPT ![u].pc = "accept", ![u].msg = Len(messages) + 1]
       /\ UNCHANGED <<follows, groups, chan, sent, ws, response, issued>>
       /\ UNCHANGED <<last_seen, blog, site>>

\* auto-accept on "the conversation has two messages or more"
ShouldAutoAccept_count(u, k, isreq, status) ==
    /\ isreq
    /\ status = "pending"
    /\ get_other_participant(k, u) # NoUser
    /\ Cardinality(MessagesOf(k)) >= 2

\* lines 603-609: the auto-accept predicate
ShouldAutoAccept(u, k, isreq, status) ==
    /\ isreq
    /\ status = "pending"
    /\ get_other_participant(k, u) # NoUser
    /\ \E i \in MessagesOf(k) : messages[i].sender # u

\* lines 603-612: auto-accept, save(update_fields=['request_status']), 201
conversation_messages_accept(u) ==
    LET r == rest[u]
    IN /\ r.pc = "accept"
       /\ conversations' =
             IF ShouldAutoAccept(u, r.conv, r.isreq, r.status)
             THEN [conversations EXCEPT ![r.conv].request_status = "accepted"]
             ELSE conversations
       /\ Respond(u, 201, <<r.msg>>)
       /\ UNCHANGED <<messages, follows, clock, groups, chan, sent, ws, issued>>
       /\ UNCHANGED <<last_seen, blog, site>>

\* conversation_action_view: accept / decline
conversation_action_view(u, k, action) ==
    /\ rest[u].pc = "idle"
    /\ CanStart
    /\ issued' = issued + 1
    /\ IF ~IsParticipant(u, k)
       THEN /\ Respond(u, 404, <<>>)
            /\ UNCHANGED conversations
       ELSE /\ conversations' = [conversations EXCEPT ![k].request_status =
                  IF action = "accept" THEN "accepted" ELSE "declined"]
            /\ Respond(u, 200, <<>>)
    /\ UNCHANGED <<messages, follows, clock, groups, chan, sent, ws>>
    /\ UNCHANGED <<last_seen, blog, site>>

\* ------------------------------------------------- REST, conversations_view
\* Conversation.Meta.ordering = ['-updated_at']: first() is the newest
ExistingBetween(u, v) ==
    {k \in 1..Len(conversations) : {u, v} \subseteq conversations[k].participants}

\* conversations_view, POST, lines 518-535: look for the conversation
conversations_view_find(u, username) ==
    /\ rest[u].pc = "idle"
    /\ CanStart
    /\ issued' = issued + 1
    /\ username \in Users \ {u} /\ ExistingBetween(u, username) = {} =>
          \* the rows stored and those that handlers in flight will insert
          Len(conversations)
          + Cardinality({v \in Users : rest[v].pc = "create"
                                       /\ rest[v].op = "start"})
          < MaxConvs
    /\ IF username = "" THEN Respond(u, 400, <<>>)
       ELSE IF username \notin Users THEN Respond(u, 404, <<>>)
       ELSE IF username = u THEN Respond(u, 400, <<>>)
       ELSE IF ExistingBetween(u, username) # {}
       THEN LET S == ExistingBetween(u, username)
            IN Respond(u, 200, <<CHOOSE k \in S : \A j \in S :
                   \/ conversations[k].updated_at > conversations[j].updated_at
                   \/ /\ conversations[k].updated_at = conversations[j].updated_at
                      /\ k <= j>>)
       ELSE /\ rest' = [rest EXCEPT ![u] =
                  [IdleRest EXCEPT !.pc = "create", !.op = "start",
                                   !.target = username]]
            /\ UNCHANGED response
    /\ UNCHANGED <<conversations, messages, follows, clock, groups, chan, sent,
                   ws>>
    /\ UNCHANGED <<last_seen, blog, site>>

\* lines 537-544: Conversation.objects.create(...)
conversations_view_create(u) ==
    LET r == rest[u]
        is_follower == <<r.target, u>> \in follows
    IN /\ r.pc = "create" /\ r.op = "start"
       /\ conversations' = Append(conversations,
              [participants |-> {}, is_request |-> ~is_follower,
               request_status |-> IF ~is_follower THEN "pending" ELSE "accepted",
               updated_at |-> clock + 1])
       /\ clock' = clock + 1
       /\ rest' = [rest EXCEPT ![u].pc = "add", ![u].conv = Len(conversations) + 1]
       /\ UNCHANGED <<messages, follows, groups, chan, sent, ws, response, issued>>
       /\ UNCHANGED <<last_seen, blog, site>>

\* lines 545-548: convo.participants.add(request.user, recipient), 201
conversations_view_add(u) ==
    LET r == rest[u]
    IN /\ r.pc = "add"
       /\ conversations' = [conversations EXCEPT ![r.conv].participants =
                               @ \cup {u, r.target}]
       /\ Respond(u, 201, <<r.conv>>)
       /\ UNCHANGED <<messages, follows, clock, groups, chan, sent, ws, issued>>
       /\ UNCHANGED <<last_seen, blog, site>>

\* ---------------------------------------------- REST, message_action_view
BogusMsg == 9       \* a well-formed id that names no DirectMessage row

\* the lookup with the conversation's participants in place of the sender
OwnMessage_participant(u, m) ==
    /\ m \in 1..Len(messages)
    /\ u \in conversations[messages[m].conversation].participants

\* line 620: DirectMessage.objects.get(id=message_id, sender=request.user)
OwnMessage(u, m) ==
    m \in 1..Len(messages) /\ messages[m].sender = u

\* an unsend that flips the flag
Unsent_toggle(row) ==
    [row EXCEPT !.is_unsent = ~@, !.content = <<>>]

\* an unsend that keeps the text
Unsent_flagonly(row) ==
    [row EXCEPT !.is_unsent = TRUE]

\* lines 627-629: the two columns save(update_fields=[...]) writes
Unsent(row) ==
    [row EXCEPT !.is_unsent = TRUE, !.content = <<>>]

\* message_action_view: the UPDATE writes two constants into the row the
\* SELECT found, so the two statements act as one step
message_action_view(u, m, action) ==
    /\ rest[u].pc = "idle"
    /\ CanStart
    /\ issued' = issued + 1
    /\ IF ~OwnMessage(u, m)
       THEN /\ Respond(u, 404, <<>>)
            /\ UNCHANGED messages
       ELSE IF action = "unsend"
       THEN /\ messages' = [messages EXCEPT ![m] = Unsent(@)]
            /\ Respond(u, 200, <<>>)
       ELSE /\ Respond(u, 400, <<>>)
            /\ UNCHANGED messages
    /\ UNCHANGED <<conversations, follows, clock, groups, chan, sent, ws,
                   last_seen, blog, site>>

\* ------------------------------------------------ blog, LivestreamViewSet
BogusStream == 9    \* a well-formed id that names no Livestream row
SignalsKept == 100  \* signals a stream keeps after a POST
ChatPage == 100     \* messages a chat GET returns
ChatMaxLength == 500

\* self.get_object(): Http404 when no row has the id
StreamExists(s) == s \in 1..Len(streams)

ChatOf(s) == {i \in 1..Len(chat) : chat[i].stream = s}

\* QuerySet.order_by('-created_at') over the row ids S of table
newest_first(table, S) ==
    SortSeq(SelectSeq([i \in 1..Len(table) |-> i], LAMBDA i : i \in S),
            LAMBDA x, y : table[x].created_at > table[y].created_at)

\* a list handed on in the order the query gave it
reversed_noop(seq) == seq

\* reversed(list(...))
reversed(seq) == [i \in 1..Len(seq) |-> seq[Len(seq) + 1 - i]]

Range(seq) == {seq[i] : i \in 1..Len(seq)}

\* go_live, lines 653-659: get_object and the checks
go_live(u, s) ==
    /\ rest[u].pc = "idle"
    /\ CanStart
    /\ issued' = issued + 1
    /\ IF ~StreamExists(s) THEN Respond(u, 404, <<>>)
       ELSE IF streams[s].host # u THEN Respond(u, 403, <<>>)
       ELSE IF streams[s].status \in {"live", "ended"} THEN Respond(u, 400, <<>>)
       ELSE /\ rest' = [rest EXCEPT ![u] =
                  [IdleRest EXCEPT !.pc = "start", !.op = "go_live",
                                   !.stream = s, !.inst = streams[s]]]
            /\ UNCHANGED response
    /\ UNCHANGED <<conversations, messages, follows, clock, groups, chan, sent,
                   ws, last_seen, blog, site>>

\* Model.save() of an instance: every column is written from the instance
save(s, inst) == [streams EXCEPT ![s] = inst]

\* Livestream.start(): status = 'live', save()
start(u) ==
    LET r == rest[u]
    IN /\ r.pc = "start"
       /\ streams' = save(r.stream, [r.inst EXCEPT !.status = "live"])
       /\ Respond(u, 200, <<r.stream>>)
       /\ UNCHANGED <<conversations, messages, follows, clock, groups, chan,
                      sent, ws, issued, last_seen, chat, signals, site>>

\* end_stream, lines 667-671: get_object and the checks
end_stream(u, s) ==
    /\ rest[u].pc = "idle"
    /\ CanStart
    /\ issued' = issued + 1
    /\ IF ~StreamExists(s) THEN Respond(u, 404, <<>>)
       ELSE IF streams[s].host # u THEN Respond(u, 403, <<>>)
       ELSE IF streams[s].status # "live" THEN Respond(u, 400, <<>>)
       ELSE /\ rest' = [rest EXCEPT ![u] =
                  [IdleRest EXCEPT !.pc = "end", !.op = "end_stream",
                                   !.stream = s, !.inst = streams[s]]]
            /\ UNCHANGED response
    /\ UNCHANGED <<conversations, messages, follows, clock, groups, chan, sent,
                   ws, last_seen, blog, site>>

\* Livestream.end(): status = 'ended', save()
end(u) ==
    LET r == rest[u]
    IN /\ r.pc = "end"
       /\ streams' = save(r.stream, [r.inst EXCEPT !.status = "ended"])
       /\ Respond(u, 200, <<r.stream>>)
       /\ UNCHANGED <<conversations, messages, follows, clock, groups, chan,
                      sent, ws, issued, last_seen, chat, signals, site>>

\* messages, GET, lines 731-734: the newest ChatPage rows, oldest first.
\* The request of a visitor who is not logged in leaves no trace but the
\* response.
messages_get(u, s) ==
    /\ u \in Users => rest[u].pc = "idle"
    /\ CanStart
    /\ issued' = issued + 1
    /\ response' =
          IF ~StreamExists(s) THEN Response(u, 404, <<>>)
          ELSE LET newest == newest_first(chat, ChatOf(s))
               IN Response(u, 200, reversed(SubSeq(newest, 1,
                      IF Len(newest) < ChatPage THEN Len(newest) ELSE ChatPage)))
    /\ UNCHANGED <<conversations, messages, follows, clock, groups, chan, sent,
                   ws, rest, last_seen, blog, site>>

\* a chat POST that never looks at the stream's status
ChatPostError_anytime(u, s, content) ==
    IF ~StreamExists(s) THEN 404
    ELSE IF u = Anonymous THEN 401
    ELSE IF content = <<>> THEN 400
    ELSE IF Len(content) > ChatMaxLength THEN 400
    ELSE 0

\* messages, POST, lines 729-746: the status the view answers with before
\* it creates anything (0: none, the message is created)
ChatPostError(u, s, content) ==
    IF ~StreamExists(s) THEN 404
    ELSE IF u = Anonymous THEN 401
    ELSE IF streams[s].status # "live" THEN 400
    ELSE IF content = <<>> THEN 400
    ELSE IF Len(content) > ChatMaxLength THEN 400
    ELSE 0

\* messages, POST up to the insert
messages_post(u, s, raw) ==
    LET content == strip(raw)
        error == ChatPostError(u, s, content)
    IN /\ u \in Users => rest[u].pc = "idle"
       /\ CanStart
       /\ issued' = issued + 1
       /\ IF error # 0
          THEN /\ response' = Response(u, error, <<>>)
               /\ UNCHANGED rest
          ELSE /\ rest' = [rest EXCEPT ![u] =
                     [IdleRest EXCEPT !.pc = "chat", !.op = "chat",
                                      !.stream = s, !.content = content]]
               /\ UNCHANGED response
       /\ UNCHANGED <<conversations, messages, follows, clock, groups, chan,
                      sent, ws, last_seen, blog, site>>

\* lines 748-753: LivestreamMessage.objects.create(...), 201
messages_create(u) ==
    LET r == rest[u]
    IN /\ r.pc = "chat"
       /\ chat' = Append(chat, [stream |-> r.stream, author |-> u,
                                content |-> r.content, created_at |-> clock + 1])
       /\ clock' = clock + 1
       /\ Respond(u, 201, <<Len(chat) + 1>>)
       /\ UNCHANGED <<conversations, messages, follows, groups, chan, sent, ws,
                      issued, last_seen, streams, signals, site>>

\* join, lines 689-691: get_object and the status check
join(u, s) ==
    /\ rest[u].pc = "idle"
    /\ CanStart
    /\ issued' = issued + 1
    /\ IF ~StreamExists(s) THEN Respond(u, 404, <<>>)
       ELSE IF streams[s].status # "live" THEN Respond(u, 400, <<>>)
       ELSE /\ rest' = [rest EXCEPT ![u] =
                  [IdleRest EXCEPT !.pc = "join_save", !.op = "join",
                                   !.stream = s, !.inst = streams[s]]]
            /\ UNCHANGED response
    /\ UNCHANGED <<conversations, messages, follows, clock, groups, chan, sent,
                   ws, last_seen, blog, site>>

\* lines 693-694: viewer_count = F('viewer_count') + 1; save(): the count is
\* computed by the database from the row, the other columns come from the
\* instance
join_save(u) ==
    LET r == rest[u]
    IN /\ r.pc = "join_save"
       /\ streams' = save(r.stream,
             [r.inst EXCEPT !.viewer_count = streams[r.stream].viewer_count + 1])
       /\ rest' = [rest EXCEPT ![u].pc = "join_refresh"]
       /\ UNCHANGED <<conversations, messages, follows, clock, groups, chan,
                      sent, ws, response, issued, last_seen, chat, signals, site>>

\* lines 695-698: refresh_from_db(), then the peak is compared
join_refresh(u) ==
    LET r == rest[u]
        fresh == streams[r.stream]
    IN /\ r.pc = "join_refresh"
       /\ IF fresh.viewer_count > fresh.peak_viewers
          THEN /\ rest' = [rest EXCEPT ![u].pc = "join_peak", ![u].inst = fresh]
               /\ UNCHANGED response
          ELSE Respond(u, 200, <<r.stream>>)
       /\ UNCHANGED <<conversations, messages, follows, clock, groups, chan,
                      sent, ws, issued, last_seen, blog, site>>

\* lines 699-702: peak_viewers = viewer_count; save(); 200
join_peak(u) ==
    LET r == rest[u]
    IN /\ r.pc = "join_peak"
       /\ streams' = save(r.stream,
             [r.inst EXCEPT !.peak_viewers = r.inst.viewer_count])
       /\ Respond(u, 200, <<r.stream>>)
       /\ UNCHANGED <<conversations, messages, follows, clock, groups, chan,
                      sent, ws, issued, last_seen, chat, signals, site>>

\* leave, lines 707-708: get_object and the test of the count it loaded
leave(u, s) ==
    /\ rest[u].pc = "idle"
    /\ CanStart
    /\ issued' = issued + 1
    /\ IF ~StreamExists(s) THEN Respond(u, 404, <<>>)
       ELSE IF streams[s].viewer_count > 0
       THEN /\ rest' = [rest EXCEPT ![u] =
                  [IdleRest EXCEPT !.pc = "leave_save", !.op = "leave",
                                   !.stream = s, !.inst = streams[s]]]
            /\ UNCHANGED response
       ELSE Respond(u, 200, <<s>>)
    /\ UNCHANGED <<conversations, messages, follows, clock, groups, chan, sent,
                   ws, last_seen, blog, site>>

\* lines 709-712: viewer_count = F('viewer_count') - 1; save();
\* refresh_from_db(); 200. viewer_count is a PositiveIntegerField: the
\* database refuses a negative value and the request ends in a 500.
leave_save(u) ==
    LET r == rest[u]
    IN /\ r.pc = "leave_save"
       /\ IF streams[r.stream].viewer_count = 0
          THEN /\ Respond(u, 500, <<>>)
               /\ UNCHANGED streams
          ELSE /\ streams' = save(r.stream,
                     [r.inst EXCEPT
                        !.viewer_count = streams[r.stream].viewer_count - 1])
               /\ Respond(u, 200, <<r.stream>>)
       /\ UNCHANGED <<conversations, messages, follows, clock, groups, chan,
                      sent, ws, issued, last_seen, chat, signals, site>>

\* like, lines 717-719: get_object and the status check
like(u, s) ==
    /\ rest[u].pc = "idle"
    /\ CanStart
    /\ issued' = issued + 1
    /\ IF ~StreamExists(s) THEN Respond(u, 404, <<>>)
       ELSE IF streams[s].status # "live" THEN Respond(u, 400, <<>>)
       ELSE /\ rest' = [rest EXCEPT ![u] =
                  [IdleRest EXCEPT !.pc = "like_save", !.op = "like",
                                   !.stream = s, !.inst = streams[s]]]
            /\ UNCHANGED response
    /\ UNCHANGED <<conversations, messages, follows, clock, groups, chan, sent,
                   ws, last_seen, blog, site>>

\* lines 721-724: total_likes = F('total_likes') + 1; save();
\* refresh_from_db(); 200
like_save(u) ==
    LET r == rest[u]
    IN /\ r.pc = "like_save"
       /\ streams' = save(r.stream,
             [r.inst EXCEPT !.total_likes = streams[r.stream].total_likes + 1])
       /\ Respond(u, 200, <<r.stream>>)
       /\ UNCHANGED <<conversations, messages, follows, clock, groups, chan,
                      sent, ws, issued, last_seen, chat, signals, site>>

\* signals, POST, lines 758-779: validation, then the row is created
signals_post(u, s, role, kind, payload) ==
    /\ rest[u].pc = "idle"
    /\ CanStart
    /\ issued' = issued + 1
    /\ IF ~StreamExists(s)
       THEN /\ Respond(u, 404, <<>>)
            /\ UNCHANGED <<signals, clock>>
       ELSE IF \/ role \notin {"host", "viewer"}
               \/ kind \notin {"offer", "answer", "candidate"}
               \/ payload = "None"
       THEN /\ Respond(u, 400, <<>>)
            /\ UNCHANGED <<signals, clock>>
       ELSE /\ signals' = Append(signals,
                  [stream |-> s, role |-> role, kind |-> kind,
                   created_at |-> clock + 1, deleted |-> FALSE])
            /\ clock' = clock + 1
            /\ rest' = [rest EXCEPT ![u] =
                  [IdleRest EXCEPT !.pc = "prune", !.op = "signal",
                                   !.stream = s, !.msg = Len(signals) + 1]]
            /\ UNCHANGED response
    /\ UNCHANGED <<conversations, messages, follows, groups, chan, sent, ws,
                   last_seen, streams, chat, site>>

\* line 781: stream.signals.order_by('-created_at')[100:]
Excess(s) ==
    LET kept == {i \in 1..Len(signals) :
                    signals[i].stream = s /\ ~signals[i].deleted}
        newest == newest_first(signals, kept)
    IN Range(SubSeq(newest, SignalsKept + 1, Len(newest)))

\* lines 781-782: the excess queryset is evaluated; nothing to prune: 201
signals_select(u) ==
    LET r == rest[u]
    IN /\ r.pc = "prune"
       /\ IF Excess(r.stream) = {}
          THEN Respond(u, 201, <<r.msg>>)
          ELSE /\ rest' = [rest EXCEPT ![u].pc = "delete",
                                       ![u].excess = Excess(r.stream)]
               /\ UNCHANGED response
       /\ UNCHANGED <<conversations, messages, follows, clock, groups, chan,
                      sent, ws, issued, last_seen, blog, site>>

\* line 783: stream.signals.filter(id__in=[...]).delete(), 201
signals_delete(u) ==
    LET r == rest[u]
    IN /\ r.pc = "delete"
       /\ signals' = [i \in 1..Len(signals) |->
                         IF i \in r.excess /\ signals[i].stream = r.stream
                         THEN [signals[i] EXCEPT !.deleted = TRUE]
                         ELSE signals[i]]
       /\ Respond(u, 201, <<r.msg>>)
       /\ UNCHANGED <<conversations, messages, follows, clock, groups, chan,
                      sent, ws, issued, last_seen, streams, chat, site>>

\* ------------------------------------------ users/views.py, the pages
Browsers == {"p", "q"}  \* browsers, each with its own session cookie
NoBio == 0              \* Profile.bio as created with the account
Bios == {1, 2}          \* texts a profile form can carry

IdleWeb == [pc |-> "idle", user |-> Anonymous, method |-> "GET", bio |-> NoBio,
            valid |-> FALSE]

LoginUrl == "login?next=/profile/"

\* an auth.logout that leaves the session as it is
logout_keep(b) == session

\* django.contrib.auth.logout(request): request.session.flush()
logout(b) == [session EXCEPT ![b] = Anonymous]

\* logout_view: the session is flushed and logout.html rendered
logout_view(b) ==
    /\ web[b].pc = "idle"
    /\ CanStart
    /\ issued' = issued + 1
    /\ session' = logout(b)
    /\ response' = Response(b, 200, "logout.html")
    /\ UNCHANGED <<conversations, messages, follows, clock, groups, chan, sent,
                   ws, rest, last_seen, blog, profiles, web, reactions,
                   billing>>

\* auth_views.LoginView, POST: authenticate(), then login() puts the user in
\* the session and redirects; a wrong password renders the form again
LoginView(b, u, password_ok) ==
    /\ web[b].pc = "idle"
    /\ CanStart
    /\ issued' = issued + 1
    /\ IF password_ok
       THEN /\ session' = [session EXCEPT ![b] = u]
            /\ response' = Response(b, 302, "profile")
       ELSE /\ response' = Response(b, 200, "login.html")
            /\ UNCHANGED session
    /\ UNCHANGED <<conversations, messages, follows, clock, groups, chan, sent,
                   ws, rest, last_seen, blog, profiles, web, reactions,
                   billing>>

\* @login_required on profile: request.user comes from the session; an
\* anonymous request is redirected to settings.LOGIN_URL with next=/profile/
login_required(b, method, bio, valid) ==
    /\ web[b].pc = "idle"
    /\ CanStart
    /\ issued' = issued + 1
    /\ IF session[b] = Anonymous
       THEN /\ response' = Response(b, 302, LoginUrl)
            /\ UNCHANGED web
       ELSE /\ web' = [web EXCEPT ![b] =
                  [pc |-> "profile", user |-> session[b], method |-> method,
                   bio |-> bio, valid |-> valid]]
            /\ UNCHANGED response
    /\ UNCHANGED <<conversations, messages, follows, clock, groups, chan, sent,
                   ws, rest, last_seen, blog, session, profiles,
                   reactions,
                   billing>>

\* profile, lines 34-54: a valid POST saves both forms and redirects to the
\* page; a GET or an invalid POST renders profile.html
profile(b) ==
    LET r == web[b]
    IN /\ r.pc = "profile"
       /\ IF r.method = "POST" /\ r.valid
          THEN /\ profiles' = [profiles EXCEPT ![r.user] = r.bio]
               /\ response' = Response(b, 302, "profile")
          ELSE /\ response' = Response(b, 200, "profile.html")
               /\ UNCHANGED profiles
       /\ web' = [web EXCEPT ![b] = IdleWeb]
       /\ UNCHANGED <<conversations, messages, follows, clock, groups, chan,
                      sent, ws, rest, issued, last_seen, blog, session,
                      reactions,
                   billing>>

\* ------------------------------------------------- likes and dislikes
Items == {"post", "comment"}

\* the views that take a reaction: PostViewSet and CommentViewSet of the
\* API, and the pages LikeView / DislikeView, which know posts only
Item(view) == IF view = "CommentViewSet" THEN "comment" ELSE "post"

\* the many-to-many set a reaction of this kind lives in
Own(kind, x) == IF kind = "like" THEN likes[x] ELSE dislikes[x]

\* a remove that deletes nothing
remove_nothing(set, u) == set

\* manager.remove(user) and manager.add(user): no error when the row is
\* absent or present already
remove(set, u) == set \ {u}
add(set, u) == set \cup {u}

\* like / dislike up to the membership test: get_object, then
\* likes.filter(pk=user.pk).exists() (request.user in likes.all() on the page)
react(u, view, kind) ==
    /\ rest[u].pc = "idle"
    /\ CanStart
    /\ issued' = issued + 1
    /\ rest' = [rest EXCEPT ![u] =
          [IdleRest EXCEPT !.op = kind, !.target = view,
             !.pc = IF u \in Own(kind, Item(view))
                    THEN "remove_own" ELSE "remove_other"]]
    /\ UNCHANGED <<conversations, messages, follows, clock, groups, chan, sent,
                   ws, response, last_seen, blog, session, profiles, web,
                   reactions,
                   billing>>

\* the reaction was there: it is removed, and the view answers
remove_own(u) ==
    LET r == rest[u]
        x == Item(r.target)
    IN /\ r.pc = "remove_own"
       /\ IF r.op = "like"
          THEN likes' = [likes EXCEPT ![x] = remove(@, u)] /\ UNCHANGED dislikes
          ELSE dislikes' = [dislikes EXCEPT ![x] = remove(@, u)] /\ UNCHANGED likes
       /\ Respond(u, IF r.target = "page" THEN 302 ELSE 200, <<>>)
       /\ UNCHANGED <<conversations, messages, follows, clock, groups, chan,
                      sent, ws, issued, last_seen, blog, session, profiles, web,
                   billing>>

\* the reaction was not there: first the opposite one is removed
remove_other(u) ==
    LET r == rest[u]
        x == Item(r.target)
    IN /\ r.pc = "remove_other"
       /\ IF r.op = "like"
          THEN dislikes' = [dislikes EXCEPT ![x] = remove(@, u)] /\ UNCHANGED likes
          ELSE likes' = [likes EXCEPT ![x] = remove(@, u)] /\ UNCHANGED dislikes
       /\ rest' = [rest EXCEPT ![u].pc = "add_own"]
       /\ UNCHANGED <<conversations, messages, follows, clock, groups, chan,
                      sent, ws, response, issued, last_seen, blog, session,
                      profiles, web,
                   billing>>

\* then the reaction is added, and the view answers
add_own(u) ==
    LET r == rest[u]
        x == Item(r.target)
    IN /\ r.pc = "add_own"
       /\ IF r.op = "like"
          THEN likes' = [likes EXCEPT ![x] = add(@, u)] /\ UNCHANGED dislikes
          ELSE dislikes' = [dislikes EXCEPT ![x] = add(@, u)] /\ UNCHANGED likes
       /\ Respond(u, IF r.target = "page" THEN 302 ELSE 200, <<>>)
       /\ UNCHANGED <<conversations, messages, follows, clock, groups, chan,
                      sent, ws, issued, last_seen, blog, session, profiles, web,
                   billing>>

\* --------------------------------------------------- payments/api.py
References == {"r1", "r2"}  \* Payment.reference of the rows that exist

\* Payment.objects.create(...) of initialize_payment: status pending
Payment(u, tier) ==
    [user |-> u, status |-> "pending", tier |-> tier, verified_at |-> 0,
     subscription |-> NoUser]


\* payment.status == 'success' (verify_payment line 190, webhook line 329)
AlreadyVerified(p) == p.status = "success"

\* Payment.mark_success: status, verified_at, then save() of the instance
mark_success(p, now) == [p EXCEPT !.status = "success", !.verified_at = now]

\* Subscription.objects.update_or_create(user=..., defaults={...}): the row
\* of the user is created or overwritten; only verify_payment resets
\* cancelled_at
update_or_create(u, p, now, reset_cancelled) ==
    [subscriptions EXCEPT ![u] =
        [tier |-> p.tier, status |-> "active", expires_at |-> now,
         cancelled_at |-> IF reset_cancelled THEN 0 ELSE @.cancelled_at]]

\* verify_payment, lines 183-197: the payment is looked up for the caller;
\* 404 without one, 200 at once if it is verified already
verify_payment(u, ref) ==
    /\ rest[u].pc = "idle"
    /\ CanStart
    /\ issued' = issued + 1
    /\ IF ref \notin References \/ payments[ref].user # u
       THEN Respond(u, 404, <<>>)
       ELSE IF AlreadyVerified(payments[ref])
       THEN Respond(u, 200, <<"Payment already verified">>)
       ELSE /\ rest' = [rest EXCEPT ![u] =
                  [IdleRest EXCEPT !.pc = "mark", !.op = "verify",
                                   !.ref = ref]]
            /\ UNCHANGED response
    /\ UNCHANGED <<conversations, messages, follows, clock, groups, chan, sent,
                   ws, last_seen, blog, session, profiles, web, reactions,
                   billing>>

\* line 206: payment.mark_success(paystack_reference). The instance is the
\* one loaded at line 186, which was pending with no subscription.
verify_mark(u) ==
    LET r == rest[u]
        inst == Payment(payments[r.ref].user, payments[r.ref].tier)
    IN /\ r.pc = "mark"
       /\ payments' = [payments EXCEPT ![r.ref] = mark_success(inst, clock + 1)]
       /\ clock' = clock + 1
       /\ rest' = [rest EXCEPT ![u].pc = "subscribe"]
       /\ UNCHANGED <<conversations, messages, follows, groups, chan, sent, ws,
                      response, issued, last_seen, blog, session, profiles,
                      web, reactions, subscriptions, emails, hook>>

\* lines 209-224: expires_at, Subscription.objects.update_or_create
verify_subscribe(u) ==
    LET r == rest[u]
    IN /\ r.pc = "subscribe"
       /\ subscriptions' = update_or_create(u, payments[r.ref], clock + 1, TRUE)
       /\ clock' = clock + 1
       /\ rest' = [rest EXCEPT ![u].pc = "confirm"]
       /\ UNCHANGED <<conversations, messages, follows, groups, chan, sent, ws,
                      response, issued, last_seen, blog, session, profiles,
                      web, reactions, payments, emails, hook>>

\* lines 226-237: the payment is linked to the subscription, the
\* confirmation e-mail is sent, 200
verify_confirm(u) ==
    LET r == rest[u]
    IN /\ r.pc = "confirm"
       /\ payments' = [payments EXCEPT ![r.ref].subscription = u]
       /\ emails' = Append(emails, r.ref)
       /\ Respond(u, 200, <<"Payment verified and subscription activated">>)
       /\ UNCHANGED <<conversations, messages, follows, clock, groups, chan,
                      sent, ws, issued, last_seen, blog, session, profiles,
                      web, reactions, subscriptions, hook>>

\* cancel_subscription, lines 265-273: the caller's subscription is loaded;
\* 404 without one, 400 if it is cancelled already
cancel_subscription(u) ==
    /\ rest[u].pc = "idle"
    /\ CanStart
    /\ issued' = issued + 1
    /\ IF subscriptions[u] = NoSubscription
       THEN Respond(u, 404, <<"No subscription found">>)
       ELSE IF subscriptions[u].status = "cancelled"
       THEN Respond(u, 400, <<"Subscription already cancelled">>)
       ELSE /\ rest' = [rest EXCEPT ![u] =
                  [IdleRest EXCEPT !.pc = "cancel", !.op = "cancel",
                                   !.sub = subscriptions[u]]]
            /\ UNCHANGED response
    /\ UNCHANGED <<conversations, messages, follows, clock, groups, chan, sent,
                   ws, last_seen, blog, session, profiles, web, reactions,
                   billing>>

\* Subscription.cancel (models.py 57-61): status, cancelled_at, save() of the
\* loaded instance; then the cancellation e-mail (not a confirmation) and 200
cancel(u) ==
    LET r == rest[u]
    IN /\ r.pc = "cancel"
       /\ subscriptions' = [subscriptions EXCEPT ![u] =
              [r.sub EXCEPT !.status = "cancelled", !.cancelled_at = clock + 1]]
       /\ clock' = clock + 1
       /\ Respond(u, 200, <<"Subscription cancelled">>)
       /\ UNCHANGED <<conversations, messages, follows, groups, chan, sent, ws,
                      issued, last_seen, blog, session, profiles, web,
                      reactions, payments, emails, hook>>

\* paystack_webhook, charge.success, lines 321-329: the payment is looked up
\* by its reference; an unknown or verified one is answered 200 at once
paystack_webhook(ref) ==
    /\ hook.pc = "idle"
    /\ CanStart
    /\ issued' = issued + 1
    /\ IF ref \notin References \/ AlreadyVerified(payments[ref])
       THEN /\ response' = Response("paystack", 200, <<>>)
            /\ UNCHANGED hook
       ELSE /\ hook' = [pc |-> "mark", ref |-> ref]
            /\ UNCHANGED response
    /\ UNCHANGED <<conversations, messages, follows, clock, groups, chan, sent,
                   ws, rest, last_seen, blog, session, profiles, web,
                   reactions, payments, subscriptions, emails>>

\* line 330: payment.mark_success(data.get('id')), on the instance loaded at
\* line 328
webhook_mark ==
    LET inst == Payment(payments[hook.ref].user, payments[hook.ref].tier)
    IN /\ hook.pc = "mark"
       /\ payments' = [payments EXCEPT ![hook.ref] = mark_success(inst, clock + 1)]
       /\ clock' = clock + 1
       /\ hook' = [hook EXCEPT !.pc = "subscribe"]
       /\ UNCHANGED <<conversations, messages, follows, groups, chan, sent, ws,
                      rest, response, issued, last_seen, blog, session,
                      profiles, web, reactions, subscriptions, emails>>

\* lines 333-347: expires_at, Subscription.objects.update_or_create
webhook_subscribe ==
    /\ hook.pc = "subscribe"
    /\ subscriptions' = update_or_create(payments[hook.ref].user,
                                         payments[hook.ref], clock + 1, FALSE)
    /\ clock' = clock + 1
    /\ hook' = [hook EXCEPT !.pc = "confirm"]
    /\ UNCHANGED <<conversations, messages, follows, groups, chan, sent, ws,
                   rest, response, issued, last_seen, blog, session, profiles,
                   web, reactions, payments, emails>>

\* lines 349-358: link, confirmation e-mail, 200
webhook_confirm ==
    /\ hook.pc = "confirm"
    /\ payments' = [payments EXCEPT
                       ![hook.ref].subscription = payments[hook.ref].user]
    /\ emails' = Append(emails, hook.ref)
    /\ hook' = [pc |-> "idle", ref |-> "none"]
    /\ response' = Response("paystack", 200, <<>>)
    /\ UNCHANGED <<conversations, messages, follows, clock, groups, chan, sent,
                   ws, rest, issued, last_seen, blog, session, profiles, web,
                   reactions, subscriptions>>

\* ------------------------------------------------------- specifications
Row(participants, is_request, updated_at) ==
    [participants |-> participants, is_request |-> is_request,
     request_status |-> IF is_request THEN "pending" ELSE "accepted",
     updated_at |-> updated_at]

\* Livestream(host, status): a row of the Livestream table
Livestream(host, status) ==
    [host |-> host, status |-> status, viewer_count |-> 0, peak_viewers |-> 0,
     total_likes |-> 0]

\* A and B each host a stream nobody has started, chatted in or signalled
InitStreams ==
    /\ streams = <<Livestream("A", "scheduled"), Livestream("B", "scheduled")>>
    /\ chat = <<>>
    /\ signals = <<>>

\* A and B have each initialized a payment that is still pending; nobody
\* has a subscription
InitBilling ==
    /\ payments = [r \in References |->
                     Payment(IF r = "r1" THEN "A" ELSE "B",
                             IF r = "r1" THEN "premium" ELSE "basic")]
    /\ subscriptions = [u \in Users |-> NoSubscription]
    /\ emails = <<>>
    /\ hook = [pc |-> "idle", ref |-> "none"]

\* nobody has reacted to anything
InitReactions ==
    /\ likes = [x \in Items |-> {}]
    /\ dislikes = [x \in Items |-> {}]

\* nobody is logged in and no profile has been edited
InitSite ==
    /\ session = [b \in Browsers |-> Anonymous]
    /\ profiles = [u \in Users |-> NoBio]
    /\ web = [b \in Browsers |-> IdleWeb]
    /\ InitReactions
    /\ InitBilling

\* A has opened a conversation with B (a request unless B follows A) and one
\* with C, who follows A; nothing has been sent yet.
InitTables ==
    /\ \E is_request \in BOOLEAN :
          /\ conversations = <<Row({"A", "B"}, is_request, 1),
                               Row({"A", "C"}, FALSE, 2)>>
          /\ follows = IF is_request THEN {<<"C", "A">>}
                       ELSE {<<"B", "A">>, <<"C", "A">>}
    /\ messages = <<>>
    /\ clock = 2
    /\ rest = [u \in Users |-> IdleRest]
    /\ response = Response(NoUser, 0, <<>>)
    /\ issued = 0
    /\ InitStreams
    /\ InitSite

\* no socket has been opened yet
InitNew ==
    /\ groups = [u \in Users |-> {}]
    /\ chan = [c \in Conns |-> <<>>]
    /\ sent = [c \in Conns |-> <<>>]
    /\ ws = [c \in Conns |-> [IdleWs EXCEPT !.pc = "new"]]
    /\ last_seen = [u \in Users |-> 0]

\* the two conversations exist and no socket has been opened yet
InitClosed == InitTables /\ InitNew

\* the two conversations exist and every socket has completed connect()
InitOpen ==
    /\ InitTables
    /\ groups = [u \in Users |-> {c \in Conns : ConnUser[c] = u}]
    /\ chan = [c \in Conns |-> <<>>]
    /\ sent = [c \in Conns |-> <<Frame("connection_established", NoConv,
                                   0, <<>>, NoUser, 0, "")>>]
    /\ ws = [c \in Conns |-> IdleWs]
    /\ last_seen = [u \in Users |-> Cardinality(groups[u])]

\* the two conversations exist; A and B each have one socket open, A's
\* second tab was never opened
InitPair ==
    /\ InitTables
    /\ groups = [u \in Users |-> {c \in {"a1", "b1"} : ConnUser[c] = u}]
    /\ chan = [c \in Conns |-> <<>>]
    /\ sent = [c \in Conns |->
                 IF c = "a2" THEN <<>>
                 ELSE <<Frame("connection_established", NoConv, 0, <<>>,
                              NoUser, 0, "")>>]
    /\ ws = [c \in Conns |-> IF c = "a2" THEN [IdleWs EXCEPT !.pc = "new"]
                              ELSE IdleWs]
    /\ last_seen = [u \in Users |-> Cardinality(groups[u])]

FrameConvIds == {NoConv, 1, 2, BogusConv}   \* 'conversation_id' of a frame
UrlConvIds == {1, 2, BogusConv}             \* <uuid:conversation_id> of a URL
Clients == {"A", "B"}                       \* the users who call the REST API

WsSend ==
    \/ \E c \in Conns, k \in FrameConvIds, raw \in Contents :
          handle_chat_message(c, k, raw, "text")
    \/ \E c \in Conns : save_message(c)
    \/ \E c \in Conns : fan_out(c)

RestSend ==
    \/ \E u \in Clients, k \in UrlConvIds, p \in Posts :
          conversation_messages_send(u, k, p[1], p[2], FALSE)
    \/ \E u \in Clients : conversation_messages_create(u)
    \/ \E u \in Clients : conversation_messages_accept(u)

\* Fan-out: sockets open and close while chat_message frames are handled.
NextFan ==
    \/ \E c \in Conns : connect(c)
    \/ \E c \in Conns : disconnect(c)
    \/ \E c \in Conns : dispatch_event(c)
    \/ WsSend

SpecFan == InitClosed /\ [][NextFan]_vars

\* Message requests: both send paths and accept / decline, one socket each.
NextGate ==
    \/ WsSend
    \/ RestSend
    \/ \E u \in Clients, k \in UrlConvIds, action \in {"accept", "decline"} :
           conversation_action_view(u, k, action)

SpecGate == InitPair /\ [][NextGate]_vars

\* Sends only: nobody uses accept / decline.
NextSend == WsSend \/ RestSend
SpecSend == InitOpen /\ [][NextSend]_vars

\* Typing and read receipts over the socket, all sockets open.
NextRead ==
    \/ WsSend
    \/ \E c \in Conns, k \in FrameConvIds, is_typing \in BOOLEAN :
          handle_typing(c, k, is_typing)
    \/ \E c \in Conns, k \in FrameConvIds : handle_mark_read(c, k)
    \/ \E c \in Conns : mark_messages_read(c)
    \/ \E c \in Conns : notify_read(c)

SpecRead == InitOpen /\ [][NextRead]_vars

\* The message list, with both send paths.
NextList ==
    \/ WsSend
    \/ RestSend
    \/ \E u \in Clients, k \in UrlConvIds : conversation_messages_get(u, k)

SpecList == InitOpen /\ [][NextList]_vars

\* Starting conversations: empty tables, any of the follow edges between A/B.
InitConv ==
    /\ conversations = <<>>
    /\ follows \in SUBSET {<<"A", "B">>, <<"B", "A">>}
    /\ messages = <<>>
    /\ clock = 0
    /\ rest = [u \in Users |-> IdleRest]
    /\ response = Response(NoUser, 0, <<>>)
    /\ issued = 0
    /\ InitStreams
    /\ InitSite
    /\ InitNew

NextConv ==
    \/ \E u \in Users, username \in Users \cup {"", "nobody"} :
          conversations_view_find(u, username)
    \/ \E u \in Users : conversations_view_create(u)
    \/ \E u \in Users : conversations_view_add(u)

SpecConv == InitConv /\ [][NextConv]_vars

\* Unsend, by anybody, next to everything else that touches a message of
\* the A-B conversation: both send paths, the list, mark_read over the
\* socket, accept / decline.
NextUnsend ==
    \/ \E u \in Users, m \in (1..MaxMsgs) \cup {BogusMsg},
             action \in {"unsend", "react"} :
           message_action_view(u, m, action)
    \/ \E c \in Conns : handle_chat_message(c, 1, <<"h">>, "text")
    \/ \E c \in Conns : save_message(c)
    \/ \E c \in Conns : fan_out(c)
    \/ \E u \in Clients : conversation_messages_send(u, 1, <<"h">>, "text", FALSE)
    \/ \E u \in Clients : conversation_messages_create(u)
    \/ \E u \in Clients : conversation_messages_accept(u)
    \/ \E u \in Clients : conversation_messages_get(u, 1)
    \/ \E c \in Conns : handle_mark_read(c, 1)
    \/ \E c \in Conns : mark_messages_read(c)
    \/ \E c \in Conns : notify_read(c)
    \/ \E u \in Clients, action \in {"accept", "decline"} :
          conversation_action_view(u, 1, action)

SpecUnsend == InitPair /\ [][NextUnsend]_vars

\* Handshakes with every kind of credential, while frames are handled.
Handshake ==
    \/ \E c \in Conns : \E token \in TokensOf(c) : handshake(c, token)
    \/ \E c \in Conns : disconnect(c)
    \/ \E c \in Conns : dispatch_event(c)

\* what B sends A in their conversation: messages, typing, read receipts
NextAuth ==
    \/ Handshake
    \/ handle_chat_message("b1", 1, <<"h">>, "text")
    \/ save_message("b1")
    \/ fan_out("b1")
    \/ handle_typing("b1", 1, TRUE)
    \/ handle_mark_read("b1", 1)
    \/ mark_messages_read("b1")
    \/ notify_read("b1")

SpecAuth == InitClosed /\ [][NextAuth]_vars

\* Frames no handler takes, between chat_message frames.
NextFrames ==
    \/ \E c \in Conns, text \in RawFrames : receive(c, text)
    \/ \E c \in Conns : dispatch_event(c)
    \/ WsSend

SpecFrames == InitPair /\ [][NextFrames]_vars

\* Long messages on both send paths: A over the socket, B over REST.
Repeat(ch, n) == [i \in 1..n |-> ch]
LongContents ==
    {Repeat("h", MaxLength), Repeat("h", MaxLength + 1),
     Repeat("h", MaxEncryptedLength + 1)}

NextLength ==
    \/ \E raw \in LongContents : handle_chat_message("a1", 1, raw, "text")
    \/ save_message("a1")
    \/ fan_out("a1")
    \/ \E raw \in LongContents, is_encrypted \in BOOLEAN :
          conversation_messages_send("B", 1, raw, "text", is_encrypted)
    \/ conversation_messages_create("B")
    \/ conversation_messages_accept("B")

SpecLength == InitPair /\ [][NextLength]_vars

\* Livestream chat: the hosts start and end their streams while members and
\* visitors post and read.
ChatContents == {<<" ">>, <<" ", "h", " ">>, Repeat("h", ChatMaxLength + 1)}
Visitors == Clients \cup {Anonymous}
UrlStreamIds == {1, BogusStream}

NextChat ==
    \/ \E u \in Clients, s \in UrlStreamIds : go_live(u, s)
    \/ \E u \in Clients : start(u)
    \/ \E u \in Clients, s \in UrlStreamIds : end_stream(u, s)
    \/ \E u \in Clients : end(u)
    \/ \E u \in Visitors, s \in UrlStreamIds, raw \in ChatContents :
          messages_post(u, s, raw)
    \/ \E u \in Clients : messages_create(u)
    \/ \E u \in Visitors, s \in UrlStreamIds : messages_get(u, s)

SpecChat == InitClosed /\ [][NextChat]_vars

\* Signalling: stream 1 already holds SignalsKept rows, or one less, from
\* earlier POSTs; stream 2 holds one.
InitSignals ==
    /\ conversations = <<>>
    /\ follows = {}
    /\ messages = <<>>
    /\ rest = [u \in Users |-> IdleRest]
    /\ response = Response(NoUser, 0, <<>>)
    /\ issued = 0
    /\ InitNew
    /\ InitSite
    /\ streams = <<Livestream("A", "live"), Livestream("B", "live")>>
    /\ chat = <<>>
    /\ \E n \in {SignalsKept - 1, SignalsKept} :
          /\ signals = [i \in 1..(n + 1) |->
                          [stream |-> IF i <= n THEN 1 ELSE 2, role |-> "host",
                           kind |-> "offer", created_at |-> i, deleted |-> FALSE]]
          /\ clock = n + 1

NextSignals ==
    \/ \E u \in Clients, s \in {1, 2, BogusStream}, role \in {"host", "guest"},
          payload \in {"sdp", "None"} : signals_post(u, s, role, "offer", payload)
    \/ \E u \in Clients : signals_select(u)
    \/ \E u \in Clients : signals_delete(u)

SpecSignals == InitSignals /\ [][NextSignals]_vars

\* Chat history: stream 1 already holds ChatPage messages, or one less or one
\* more, from earlier posts; the second row of the table belongs to stream 2.
InitPage ==
    /\ conversations = <<>>
    /\ follows = {}
    /\ messages = <<>>
    /\ rest = [u \in Users |-> IdleRest]
    /\ response = Response(NoUser, 0, <<>>)
    /\ issued = 0
    /\ InitNew
    /\ InitSite
    /\ streams = <<Livestream("A", "live"), Livestream("B", "live")>>
    /\ signals = <<>>
    /\ \E n \in {ChatPage - 1, ChatPage, ChatPage + 1} :
          /\ chat = [i \in 1..(n + 1) |->
                       [stream |-> IF i = 2 THEN 2 ELSE 1, author |-> "C",
                        content |-> <<"h">>, created_at |-> i]]
          /\ clock = n + 1

NextPage ==
    \/ \E u \in Clients, s \in {1, 2} : messages_post(u, s, <<"h">>)
    \/ \E u \in Clients : messages_create(u)
    \/ \E u \in Visitors, s \in {1, 2, BogusStream} : messages_get(u, s)

SpecPage == InitPage /\ [][NextPage]_vars

\* The pages: A is logged in in browser p, and A or B in browser q; they log
\* out, log in again and open or submit the profile page.
InitLogin ==
    /\ conversations = <<>>
    /\ follows = {}
    /\ messages = <<>>
    /\ clock = 0
    /\ rest = [u \in Users |-> IdleRest]
    /\ response = Response(NoUser, 0, <<>>)
    /\ issued = 0
    /\ InitNew
    /\ InitStreams
    /\ \E u \in {"A", "B"} : session = [b \in Browsers |->
                                          IF b = "p" THEN "A" ELSE u]
    /\ profiles = [u \in Users |-> NoBio]
    /\ web = [b \in Browsers |-> IdleWeb]
    /\ InitReactions
    /\ InitBilling

NextLogin ==
    \/ \E b \in Browsers : logout_view(b)
    \/ \E b \in Browsers, u \in {"A", "B"}, password_ok \in BOOLEAN :
          LoginView(b, u, password_ok)
    \/ \E b \in Browsers, method \in {"GET", "POST"}, bio \in Bios,
          valid \in BOOLEAN : login_required(b, method, bio, valid)
    \/ \E b \in Browsers : profile(b)

SpecLogin == InitLogin /\ [][NextLogin]_vars

\* Stream 1, hosted by A, is scheduled or live with one viewer; the host
\* starts and ends it while everybody joins, leaves, likes, chats and signals.
InitStatus ==
    /\ conversations = <<>>
    /\ follows = {}
    /\ messages = <<>>
    /\ clock = 0
    /\ rest = [u \in Users |-> IdleRest]
    /\ response = Response(NoUser, 0, <<>>)
    /\ issued = 0
    /\ InitNew
    /\ InitSite
    /\ chat = <<>>
    /\ signals = <<>>
    /\ \E row \in {Livestream("A", "scheduled"),
                    [Livestream("A", "live") EXCEPT !.viewer_count = 1,
                                                    !.peak_viewers = 1]} :
          streams = <<row>>

NextViewers ==
    \/ \E u \in Users : join(u, 1)
    \/ \E u \in Users : join_save(u)
    \/ \E u \in Users : join_refresh(u)
    \/ \E u \in Users : join_peak(u)
    \/ \E u \in Users : leave(u, 1)
    \/ \E u \in Users : leave_save(u)

NextStatus ==
    \/ \E u \in Users : go_live(u, 1)
    \/ \E u \in Users : start(u)
    \/ \E u \in Users : end_stream(u, 1)
    \/ \E u \in Users : end(u)
    \/ NextViewers
    \/ \E u \in Users : like(u, 1)
    \/ \E u \in Users : like_save(u)
    \/ \E u \in Users : messages_post(u, 1, <<"h">>)
    \/ \E u \in Users : messages_create(u)
    \/ \E u \in Users : signals_post(u, 1, "viewer", "offer", "sdp")
    \/ \E u \in Users : signals_select(u)

SpecStatus == InitStatus /\ [][NextStatus]_vars

\* Viewers only: joins and leaves of a stream nobody starts or ends.
SpecViewers == InitStatus /\ [][NextViewers]_vars

\* Reactions: A has liked the post and B has disliked it, or nobody has
\* reacted yet; every user likes and dislikes the post and the comment.
InitReact ==
    /\ conversations = <<>>
    /\ follows = {}
    /\ messages = <<>>
    /\ clock = 0
    /\ rest = [u \in Users |-> IdleRest]
    /\ response = Response(NoUser, 0, <<>>)
    /\ issued = 0
    /\ InitNew
    /\ InitStreams
    /\ session = [b \in Browsers |-> Anonymous]
    /\ profiles = [u \in Users |-> NoBio]
    /\ web = [b \in Browsers |-> IdleWeb]
    /\ \/ InitReactions
       \/ /\ likes = [x \in Items |-> IF x = "post" THEN {"A"} ELSE {}]
          /\ dislikes = [x \in Items |-> IF x = "post" THEN {"B"} ELSE {}]
    /\ InitBilling

NextReact ==
    \/ \E u \in Users, view \in {"PostViewSet", "CommentViewSet", "page"},
             kind \in {"like", "dislike"} :
          react(u, view, kind)
    \/ \E u \in Users : remove_own(u)
    \/ \E u \in Users : remove_other(u)
    \/ \E u \in Users : add_own(u)

SpecReact == InitReact /\ [][NextReact]_vars

\* Payments: the payer's verify_payment calls and Paystack's charge.success
\* webhooks for the two pending payments.
InitPay ==
    /\ conversations = <<>>
    /\ follows = {}
    /\ messages = <<>>
    /\ clock = 0
    /\ rest = [u \in Users |-> IdleRest]
    /\ response = Response(NoUser, 0, <<>>)
    /\ issued = 0
    /\ InitNew
    /\ InitStreams
    /\ InitSite

NextPay ==
    \* "r9" is the reference of no Payment row
    \/ \E u \in Clients, ref \in References \cup {"r9"} :
          verify_payment(u, ref)
    \/ \E u \in Clients : verify_mark(u)
    \/ \E u \in Clients : verify_subscribe(u)
    \/ \E u \in Clients : verify_confirm(u)
    \/ \E ref \in References \cup {"r9"} : paystack_webhook(ref)
    \/ webhook_mark
    \/ webhook_subscribe
    \/ webhook_confirm
    \/ \E u \in Clients : cancel_subscription(u)
    \/ \E u \in Clients : cancel(u)

SpecPay == InitPay /\ [][NextPay]_vars

\* Presence: A's second socket connects while B's socket sends frames of
\* every kind.
NextPresence ==
    \/ Handshake
    \/ \E text \in RawFrames : receive("b1", text)
    \/ \E raw \in Contents : handle_chat_message("b1", 1, raw, "text")
    \/ handle_typing("b1", 1, TRUE)
    \/ handle_mark_read("b1", 1)
    \/ \E c \in Conns : save_message(c)
    \/ \E c \in Conns : fan_out(c)
    \/ \E c \in Conns : mark_messages_read(c)
    \/ \E c \in Conns : notify_read(c)

SpecPresence == InitPair /\ [][NextPresence]_vars

\* ------------------------------------------------------------------ claims

\* C1: for every pair of distinct users at most one Conversation holds both of
\* them, whatever the interleaving of their start-conversation requests, and a
\* completed request (200 or 201) names a conversation of the caller with
\* exactly two participants.
C1_OneConversationPerPair ==
    /\ \A u \in Users : \A v \in Users \ {u} :
          Cardinality(ExistingBetween(u, v)) <= 1
    /\ response.code \in {200, 201} =>
          /\ response.body[1] \in 1..Len(conversations)
          /\ response.user \in conversations[response.body[1]].participants
          /\ Cardinality(conversations[response.body[1]].participants) = 2

\* what consumer d has been handed so far: written frames, then queued events
Stream(d) == sent[d] \o chan[d]

IsNewMessage(f) == f.type \in {"chat_message", "new_message"}

IsConfirmation(f) == f.type = "message_sent"

OtherParticipants(m) ==
    conversations[messages[m].conversation].participants \ {messages[m].sender}

Has(seq, type, m) ==
    \E i \in 1..Len(seq) : seq[i].type = type /\ seq[i].msg = m

\* the steps of a chat_message handler, recognised by the consumer's position
Persists(c) == ws[c].pc = "create" /\ ws'[c].pc = "fanout"
FansOut(c) == ws[c].pc = "fanout" /\ ws'[c].pc = "idle"

C2_Delivered ==
    \A d \in Conns : \A i \in 1..Len(Stream(d)) :
        LET f == Stream(d)[i]
        IN IsNewMessage(f) =>
              /\ f.msg \in 1..Len(messages)
              /\ f.content = messages[f.msg].content
              /\ f.content # <<>>
              /\ ConnUser[d] \in OtherParticipants(f.msg)
              /\ \A j \in 1..Len(Stream(d)) :
                    IsNewMessage(Stream(d)[j]) /\ Stream(d)[j].msg = f.msg => j = i

C2_Step ==
    \A c \in Conns :
        /\ Persists(c) =>
              LET k == ws[c].conv
                  m == ws'[c].msg
              IN /\ Len(messages') = Len(messages) + 1
                 /\ m = Len(messages')
                 /\ messages'[m].conversation = k
                 /\ messages'[m].sender = ConnUser[c]
                 /\ messages'[m].content = ws[c].content
                 /\ conversations'[k].updated_at > conversations[k].updated_at
        /\ FansOut(c) =>
              LET m == ws[c].msg
              IN \A d \in Conns :
                    IF \E u \in OtherParticipants(m) : d \in groups[u]
                    THEN /\ Len(chan'[d]) = Len(chan[d]) + 1
                         /\ SubSeq(chan'[d], 1, Len(chan[d])) = chan[d]
                         /\ IsNewMessage(chan'[d][Len(chan'[d])])
                         /\ chan'[d][Len(chan'[d])].msg = m
                         /\ chan'[d][Len(chan'[d])].content = messages[m].content
                    ELSE chan'[d] = chan[d]

\* C2: a chat_message that passes validation is persisted with the stripped
\* content and bumps updated_at; its fan-out hands exactly one new_message
\* event carrying that content to every connection then registered in the
\* other participant's room, and no connection of the sender or of a third
\* user is ever handed one.
C2_FanOutReachesRecipientRoom == [](C2_Delivered) /\ [][C2_Step]_vars

\* B's message has been written to both of A's sockets, and a message of the
\* A-C conversation has been fanned out while B's socket was registered.
C2_Witness ==
    \E m \in 1..Len(messages) : \E n \in 1..Len(messages) :
        /\ messages[m].sender = "B"
        /\ Has(sent["a1"], "new_message", m)
        /\ Has(sent["a2"], "new_message", m)
        /\ messages[n].conversation = 2
        /\ \E c \in Conns : Has(sent[c], "message_sent", n)
        /\ "b1" \in groups["B"]

\* C3 as stated: when a chat_message handler finishes, every other connection
\* registered in the sender's own room has been handed a message_sent event
\* for that message.
C3_OtherTabsConfirmed ==
    [][\A c \in Conns : FansOut(c) =>
          \A d \in groups[ConnUser[c]] \ {c} :
              Has(sent'[d] \o chan'[d], "message_sent", ws[c].msg)]_vars

C3_OneConfirmation ==
    \A d \in Conns : \A i \in 1..Len(Stream(d)) :
        LET f == Stream(d)[i]
        IN IsConfirmation(f) =>
              /\ f.msg \in 1..Len(messages)
              /\ messages[f.msg].sender = ConnUser[d]
              /\ f.content = messages[f.msg].content
              /\ \A e \in Conns : \A j \in 1..Len(Stream(e)) :
                    IsConfirmation(Stream(e)[j]) /\ Stream(e)[j].msg = f.msg
                        => e = d /\ j = i

C3_Step ==
    \A c \in Conns : FansOut(c) =>
        /\ Len(sent'[c]) = Len(sent[c]) + 1
        /\ IsConfirmation(sent'[c][Len(sent'[c])])
        /\ sent'[c][Len(sent'[c])].msg = ws[c].msg
        /\ sent'[c][Len(sent'[c])].content = ws[c].content
        /\ \A d \in Conns \ {c} :
              ConnUser[d] = ConnUser[c] => sent'[d] = sent[d] /\ chan'[d] = chan[d]

\* C3, amended: the message_sent event goes to the connection that sent the
\* chat_message and to no other; the sender's other connections are handed
\* nothing for that message.
C3_OnlySendingSocketConfirmed == [](C3_OneConfirmation) /\ [][C3_Step]_vars

\* a1 was confirmed a message persisted after one that a2 sent, and a2 is
\* still registered: a2 was open throughout a1's send.
C3_Witness ==
    \E m \in 1..Len(messages) : \E n \in 1..Len(messages) :
        /\ n < m
        /\ Has(sent["a1"], "message_sent", m)
        /\ Has(sent["a2"], "message_sent", n)
        /\ "a2" \in groups["A"]

\* the message request k is waiting for u: only the other side has written
GateClosed(u, k) ==
    /\ ConvExists(k)
    /\ u \in conversations[k].participants
    /\ conversations[k].is_request
    /\ conversations[k].request_status = "pending"
    /\ MessagesOf(k) # {}
    /\ \A i \in MessagesOf(k) : messages[i].sender # u

\* the frame was answered with an error event and nothing else happened
WsRejected(c) ==
    /\ Len(sent'[c]) = Len(sent[c]) + 1
    /\ sent'[c][Len(sent'[c])].type = "error"
    /\ ws' = ws
    /\ messages' = messages
    /\ conversations' = conversations
    /\ chan' = chan

\* the request was answered with an error status and nothing else happened
RestRejected(u) ==
    /\ rest'[u].pc = "idle"
    /\ response'.user = u
    /\ response'.code >= 400
    /\ messages' = messages
    /\ conversations' = conversations
    /\ chan' = chan

WsGate ==
    \A k \in 1..Len(conversations) : \A c \in Conns : \A raw \in Contents :
        GateClosed(ConnUser[c], k) /\ handle_chat_message(c, k, raw, "text")
            => WsRejected(c)

RestGate ==
    \A k \in 1..Len(conversations) : \A u \in Clients : \A p \in Posts :
        GateClosed(u, k) /\ conversation_messages_send(u, k, p[1], p[2], FALSE)
            => RestRejected(u)

\* C4 as stated: while a message request is pending and only the initiator
\* has written, a send by the other participant is rejected on the WebSocket
\* path and on the REST path alike, and nothing is persisted or changed.
C4_RejectedOnEveryPath == [][WsGate /\ RestGate]_vars

RestNoGate ==
    \A k \in 1..Len(conversations) : \A u \in Clients : \A p \in Posts :
        /\ GateClosed(u, k)
        /\ conversation_messages_send(u, k, p[1], p[2], FALSE)
        /\ ~(strip(p[1]) = <<>> /\ p[2] = "text")
        => rest'[u].pc = "create" /\ rest'[u].conv = k

\* C4, amended: the send is rejected on the WebSocket path (error event, no
\* message persisted, request_status still pending); the REST POST applies no
\* such gate and goes on to persist the message.
C4_RejectedOnWebSocketOnly == [][WsGate /\ RestNoGate]_vars

\* B has just been refused on the socket while A's request is pending
C4_Witness ==
    /\ GateClosed("B", 1)
    /\ sent["b1"][Len(sent["b1"])] =
          ErrorFrame("Cannot send messages to pending requests")

\* a send by u has just written message m into conversation k
WsWrote(c, k, m) == Persists(c) /\ ws[c].conv = k /\ ws'[c].msg = m
RestWrote(u, k, m) ==
    rest[u].pc = "accept" /\ rest'[u].pc = "idle" /\ rest[u].conv = k
        /\ rest[u].msg = m

RepliesTo(u, k, m) ==
    /\ conversations[k].is_request
    /\ \E i \in 1..Len(messages') :
          /\ messages'[i].conversation = k
          /\ i < m
          /\ messages'[i].sender # u

\* C5: a send that persists a message into a message request which already
\* holds a message of the other participant leaves request_status accepted,
\* on the WebSocket path and on the REST path, and once both participants
\* have written and the request is accepted it never becomes pending again.
C5_AcceptedOnReplyForGood ==
    [][\A k \in 1..Len(conversations) :
          /\ conversations[k].request_status = "accepted"
                /\ Cardinality({messages[i].sender : i \in MessagesOf(k)}) = 2
                => conversations'[k].request_status # "pending"
          /\ \A m \in 1..Len(messages') :
                /\ \A c \in Conns :
                      WsWrote(c, k, m) /\ RepliesTo(ConnUser[c], k, m)
                          => conversations'[k].request_status = "accepted"
                /\ \A u \in Clients :
                      RestWrote(u, k, m) /\ RepliesTo(u, k, m)
                          => conversations'[k].request_status = "accepted"]_vars

SendersOf(k) == {messages[i].sender : i \in MessagesOf(k)}

\* C6: as long as every message of a message request comes from one sender,
\* however many there are, no send has accepted it: request_status is pending.
C6_OneSenderStaysPending ==
    \A k \in 1..Len(conversations) :
        conversations[k].is_request /\ Cardinality(SendersOf(k)) <= 1
            => conversations[k].request_status = "pending"

\* A has written twice into the request, B not at all, every send is over
C6_Witness ==
    /\ conversations[1].is_request
    /\ Cardinality(MessagesOf(1)) >= 2
    /\ SendersOf(1) = {"A"}
    /\ \A c \in Conns : ws[c].pc = "idle"
    /\ \A u \in Users : rest[u].pc = "idle"

WsOutsider ==
    \A k \in 1..Len(conversations) : \A c \in Conns : \A raw \in Contents :
        /\ ConnUser[c] \notin conversations[k].participants
        /\ handle_chat_message(c, k, raw, "text")
        => WsRejected(c)

RestOutsider ==
    \A k \in 1..Len(conversations) : \A u \in Clients : \A p \in Posts :
        /\ u \notin conversations[k].participants
        /\ conversation_messages_send(u, k, p[1], p[2], FALSE)
        => RestRejected(u)

SentByParticipants ==
    \A i \in 1..Len(messages) :
        messages[i].sender \in conversations[messages[i].conversation].participants

\* C7: a send by a user who is not a participant of the named conversation,
\* over the socket or over REST, is answered with an error and changes no
\* table and no channel; no message of a non-participant ever exists.
C7_OutsiderSendRejected ==
    [](SentByParticipants) /\ [][WsOutsider /\ RestOutsider]_vars

\* B, who is not in the A-C conversation, has been refused on both paths
C7_Witness ==
    /\ sent["b1"][Len(sent["b1"])] =
          ErrorFrame("Not a participant in this conversation")
    /\ response = Response("B", 404, <<>>)
    /\ messages = <<>>

IsReadEvent(f) == f.type \in {"typing_indicator", "typing", "messages_read"}

NoOutsiderEvents ==
    \A d \in Conns : \A i \in 1..Len(Stream(d)) :
        LET f == Stream(d)[i]
        IN IsReadEvent(f) =>
              /\ ConvExists(f.conv)
              /\ f.user \in conversations[f.conv].participants

NoOutsiderUpdate ==
    \A c \in Conns :
        /\ ws[c].pc = "mr_update"
        /\ ConnUser[c] \notin conversations[ws[c].conv].participants
        => messages' = messages

\* C8: a typing or mark_read event of a user who is not a participant of the
\* named conversation hands no typing or messages_read event to anybody and
\* sets read_at on no message.
C8_OutsiderReadIgnored == [](NoOutsiderEvents) /\ [][NoOutsiderUpdate]_vars

\* C9: each consumer is handed the new_message events of one conversation in
\* the order in which the messages were persisted.
C9_InPersistenceOrder ==
    \A d \in Conns : \A i \in 1..Len(Stream(d)) : \A j \in 1..Len(Stream(d)) :
        LET f == Stream(d)[i]
            g == Stream(d)[j]
        IN /\ i < j
           /\ IsNewMessage(f)
           /\ IsNewMessage(g)
           /\ f.conv = g.conv
           => messages[f.msg].created_at < messages[g.msg].created_at

\* the body lists exactly the messages of conversation k, oldest first
ListsConversation(body, k, table) ==
    /\ \A i \in 1..Len(body) :
          body[i] \in 1..Len(table) /\ table[body[i]].conversation = k
    /\ \A m \in 1..Len(table) :
          table[m].conversation = k => \E i \in 1..Len(body) : body[i] = m
    /\ \A i \in 1..Len(body) : \A j \in 1..Len(body) :
          i < j => table[body[i]].created_at < table[body[j]].created_at

\* C10: a participant's GET of a conversation's messages answers 200 with all
\* the messages of that conversation and no other, in ascending created_at
\* order, whichever path wrote them.
C10_ListInCreationOrder ==
    [][\A k \in 1..Len(conversations) : \A u \in Clients :
          /\ u \in conversations[k].participants
          /\ conversation_messages_get(u, k)
          => /\ response'.user = u
             /\ response'.code = 200
             /\ ListsConversation(response'.body, k, messages')]_vars

\* a list of two messages, one from each participant, has been returned
C10_Witness ==
    /\ response.code = 200
    /\ Len(response.body) = 2
    /\ {messages[response.body[i]].sender : i \in 1..2} = {"A", "B"}

\* the row after an unsend: two columns written, the others as they were
AsUnsent(row) == [row EXCEPT !.is_unsent = TRUE, !.content = <<>>]

\* C11: every unsend of a message by its sender answers 200 and leaves the row
\* with is_unsent true, content empty and every other column as it was; an
\* unsend of a message that is already unsent answers the same and changes
\* nothing at all.
C11_UnsendIdempotent ==
    [][\A u \in Users : \A m \in 1..Len(messages) :
          /\ messages[m].sender = u
          /\ message_action_view(u, m, "unsend")
          => /\ response' = Response(u, 200, <<>>)
             /\ messages' = [messages EXCEPT ![m] = AsUnsent(@)]
             /\ messages[m].is_unsent => messages' = messages]_vars

\* A has sent one message over the socket and the two requests since then
\* left an unsent message, A's 200 and nothing else: unsend, twice
C11_Witness ==
    /\ issued = 3
    /\ Len(messages) = 1
    /\ messages[1].sender = "A"
    /\ messages[1].is_unsent
    /\ messages[1].read_at = 0
    /\ response = Response("A", 200, <<>>)
    /\ conversations[1].request_status = "pending"
    /\ \A c \in Conns : chan[c] = <<>> \/ c = "b1"

C12_Cleared ==
    \A m \in 1..Len(messages) : messages[m].is_unsent => messages[m].content = <<>>

C12_Step ==
    \A m \in 1..Len(messages) :
        messages[m].is_unsent =>
            /\ Len(messages') >= Len(messages)
            /\ messages'[m].is_unsent
            /\ messages'[m].content = <<>>

\* C12: a message with is_unsent true has empty content in every reachable
\* state, and no step of any handler (a send on either path, mark_read, the
\* list, accept / decline, another unsend) gives it content again or sets
\* is_unsent back to false.
C12_UnsentStaysCleared == [](C12_Cleared) /\ [][C12_Step]_vars

\* an unsent message that the other participant's list or mark_read has
\* stamped as read, after every request has returned
C12_Witness ==
    \E m \in 1..Len(messages) :
        /\ messages[m].is_unsent
        /\ messages[m].read_at # 0
        /\ \A u \in Users : rest[u].pc = "idle"
        /\ \A c \in Conns : ws[c].pc \in {"idle", "new"}

\* C13: an unsend request for a message by anybody but its sender, the other
\* participant of the conversation included, is answered with an error and
\* leaves every message as it was.
C13_OnlySenderUnsends ==
    [][\A u \in Users : \A m \in 1..Len(messages) :
          /\ messages[m].sender # u
          /\ message_action_view(u, m, "unsend")
          => /\ response'.user = u
             /\ response'.code >= 400
             /\ messages' = messages]_vars

\* B, the other participant, has just been refused: every message is A's and
\* still has its text
C13_Witness ==
    /\ response = Response("B", 404, <<>>)
    /\ messages # <<>>
    /\ \A m \in 1..Len(messages) :
          /\ messages[m].sender = "A"
          /\ ~messages[m].is_unsent
          /\ messages[m].content # <<>>

\* every message of conversation k that somebody other than u sent is read
AllRead(u, k) ==
    \A i \in MessagesOf(k) : messages[i].sender # u => messages[i].read_at # 0

\* the messages_read event the handler in position mr_notify sends
ReadReceipt(c) ==
    Frame("messages_read", ws[c].conv, 0, <<>>, ConnUser[c], ws[c].count, "")

C14_Step ==
    \A c \in Conns :
        /\ \A k \in 1..Len(conversations) :
              AllRead(ConnUser[c], k) /\ handle_mark_read(c, k)
                  => /\ ws'[c].pc = "mr_update"
                     /\ ws'[c].count = 0
                     /\ messages' = messages
        /\ (/\ ws[c].pc = "mr_update"
            /\ ws'[c].pc = "mr_notify"
            /\ AllRead(ConnUser[c], ws[c].conv))
              => messages' = messages
        /\ (ws[c].pc = "mr_notify" /\ ws'[c].pc = "idle")
              => /\ messages' = messages
                 /\ \A d \in Conns :
                       chan'[d] # chan[d] => chan'[d] = Append(chan[d], ReadReceipt(c))

\* C14: a mark_read that finds every message of the other senders already
\* read counts 0, the update it then runs on the same table changes no
\* read_at, and the messages_read event it sends carries the count it took.
C14_MarkReadIdempotent == [][C14_Step]_vars

\* b1 is about to report a count of 0 for the conversation in which A's
\* message was read before
C14_Witness ==
    /\ ws["b1"].pc = "mr_notify"
    /\ ws["b1"].count = 0
    /\ ws["b1"].conv = 1
    /\ \E i \in MessagesOf(1) : messages[i].sender = "A" /\ messages[i].read_at # 0
    /\ AllRead("B", 1)

\* the credential is missing, not a token of this server, expired, without a
\* user_id or with the id of no user
BadToken(token) ==
    \/ token.kind # "valid"
    \/ \A u \in Users : UserId[u] # token.user_id

\* connect() closed the socket; it may have run disconnect() since
WasRejected(c) ==
    \/ ws[c].pc = "rejected"
    \/ ws[c].pc = "closed" /\ sent[c] = <<>>

C15_Outside ==
    \A c \in Conns :
        WasRejected(c) =>
            /\ \A u \in Users : c \notin groups[u]
            /\ chan[c] = <<>>
            /\ sent[c] = <<>>

C15_Step ==
    \A c \in Conns :
        /\ \A token \in TokensOf(c) :
              BadToken(token) /\ handshake(c, token)
                  => /\ ws'[c].pc = "rejected"
                     /\ UNCHANGED <<groups, chan, sent, last_seen, conversations,
                                    messages>>
        /\ (ws[c].pc = "rejected" /\ ws'[c] # ws[c])
              => /\ ws'[c].pc = "closed"
                 /\ UNCHANGED <<groups, chan, sent, last_seen, conversations,
                                messages>>

\* C15: a handshake whose credential is missing, invalid, expired or names no
\* user is closed by connect(): the socket joins no room, is written no frame
\* and is queued no event then or later, presence is left alone, and its
\* disconnect changes nothing but the socket's own position.
C15_BadCredentialRejected == [](C15_Outside) /\ [][C15_Step]_vars

\* A's second socket was rejected and has disconnected, while A's first
\* socket, in A's room, was handed B's message and B's typing indicator
C15_Witness ==
    /\ ws["a2"].pc = "closed"
    /\ sent["a2"] = <<>>
    /\ "a1" \in groups["A"]
    /\ \E i \in 1..Len(Stream("a1")) : IsNewMessage(Stream("a1")[i])
    /\ \E i \in 1..Len(Stream("a1")) : IsReadEvent(Stream("a1")[i])

\* frames that are not JSON, or JSON that is not an object with a type
Malformed == {text \in RawFrames :
                 \/ json_loads(text).error
                 \/ ~json_loads(text).object
                 \/ json_loads(text).type = "None"}

\* consumer c was written one more frame, an error event
ErrorReported(c) ==
    /\ Len(sent'[c]) = Len(sent[c]) + 1
    /\ sent'[c][Len(sent'[c])].type = "error"

\* C16: every inbound frame that is not a well-formed event object is answered
\* with an error event to the sender, and the connection stays open and
\* registered in the user's room, ready for the next frame.
C16_MalformedAnswered ==
    [][\A c \in Conns : \A text \in Malformed :
          receive(c, text)
          => /\ ErrorReported(c)
             /\ ws'[c].pc = "idle"
             /\ c \in groups'[ConnUser[c]]]_vars

\* C17: a typing or mark_read frame that names no conversation, or one that
\* does not exist, is answered with an error event to the sender.
C17_MissingConversationReported ==
    [][\A c \in Conns : \A k \in {NoConv, BogusConv} :
          (\/ \E is_typing \in BOOLEAN : handle_typing(c, k, is_typing)
           \/ handle_mark_read(c, k))
          => ErrorReported(c)]_vars

\* the longest content a row with this is_encrypted flag may hold
LengthLimit(is_encrypted) ==
    IF is_encrypted THEN MaxEncryptedLength ELSE MaxLength

C18_WithinLimit ==
    \A m \in 1..Len(messages) :
        Len(messages[m].content) <= LengthLimit(messages[m].is_encrypted)

C18_Step ==
    \A raw \in LongContents :
        /\ \A c \in Conns :
              /\ Len(strip(raw)) > LengthLimit(FALSE)
              /\ handle_chat_message(c, 1, raw, "text")
              => WsRejected(c)
        /\ \A u \in Clients : \A is_encrypted \in BOOLEAN :
              /\ Len(strip(raw)) > LengthLimit(is_encrypted)
              /\ conversation_messages_send(u, 1, raw, "text", is_encrypted)
              => RestRejected(u)

\* C18: every DirectMessage row holds at most 5000 characters of content, or
\* 10000 when is_encrypted is set, whichever path created it, and a longer
\* send is answered with an error and persists nothing.
C18_ContentWithinLimit == [](C18_WithinLimit) /\ [][C18_Step]_vars

\* rows of stream s in a signals table: the ones still stored, and all that
\* were ever inserted
Stored(table, s) ==
    {i \in 1..Len(table) : table[i].stream = s /\ ~table[i].deleted}

Inserted(table, s) == {i \in 1..Len(table) : table[i].stream = s}

\* the SignalsKept most recently created of them
MostRecent(table, s) ==
    {i \in Inserted(table, s) :
        Cardinality({j \in Inserted(table, s) :
                        table[j].created_at > table[i].created_at}) < SignalsKept}

\* the step on which the signal POST of u answers 201
SignalPosted(u) ==
    /\ signals_select(u) \/ signals_delete(u)
    /\ rest'[u].pc = "idle"

C19_Step ==
    \A u \in Clients :
        SignalPosted(u) =>
            LET s == rest[u].stream
            IN /\ Cardinality(Stored(signals', s)) <= SignalsKept
               /\ Stored(signals', s) = MostRecent(signals', s)
               /\ rest[u].msg \in Stored(signals', s)
               /\ \A i \in 1..Len(signals) :
                     signals[i].stream # s => signals'[i] = signals[i]

\* C19: when a signal POST for a stream completes, the stream holds at most
\* SignalsKept signal rows, they are exactly the most recently created ones,
\* the row just inserted is among them, and the rows of other streams are as
\* they were.
C19_PrunedAfterPost == [][C19_Step]_vars

\* a chat POST that passes every check but the one on the stream's status
ValidChatPost(u, s, raw) ==
    /\ messages_post(u, s, raw)
    /\ u \in Clients
    /\ StreamExists(s)
    /\ strip(raw) # <<>>
    /\ Len(strip(raw)) <= ChatMaxLength

\* row m is the most recently created chat row of stream s in table
NewestChat(table, s, m) ==
    /\ m \in 1..Len(table)
    /\ table[m].stream = s
    /\ \A i \in 1..Len(table) :
          table[i].stream = s => table[i].created_at <= table[m].created_at

C20_Step ==
    /\ \A u \in Clients : \A s \in UrlStreamIds : \A raw \in ChatContents :
          ValidChatPost(u, s, raw) =>
              IF streams[s].status = "live"
              THEN /\ rest'[u].pc = "chat"
                   /\ rest'[u].stream = s
                   /\ rest'[u].content = strip(raw)
              ELSE /\ response' = Response(u, 400, <<>>)
                   /\ rest'[u].pc = "idle"
                   /\ chat' = chat
    /\ \A u \in Clients :
          messages_create(u) =>
              /\ response'.code = 201
              /\ Len(chat') = Len(chat) + 1
              /\ chat'[Len(chat')].content = rest[u].content
              /\ chat'[Len(chat')].author = u
              /\ NewestChat(chat', rest[u].stream, Len(chat'))
    /\ \A u \in Visitors : \A s \in UrlStreamIds :
          messages_get(u, s) /\ StreamExists(s) =>
              LET body == response'.body
              IN /\ response'.code = 200
                 /\ Range(body) \subseteq ChatOf(s)
                 /\ Len(body) = IF Cardinality(ChatOf(s)) < ChatPage
                                THEN Cardinality(ChatOf(s)) ELSE ChatPage
                 /\ \A k \in 1..(Len(body) - 1) :
                       chat[body[k]].created_at < chat[body[k + 1]].created_at
                 /\ ChatOf(s) # {} => NewestChat(chat, s, body[Len(body)])

\* C20: a chat post that is otherwise valid is accepted exactly when the
\* stream's status is live as the view reads it: on a scheduled or ended
\* stream it is answered 400 and stores nothing; on a live stream (after the
\* host's go_live) its message is created as the newest of the stream, and a
\* chat retrieval returns the stream's messages oldest first with the newest
\* one last.
C20_ChatOnlyWhileLive == [][C20_Step]_vars

\* an anonymous visitor's retrieval of stream 1, which started scheduled and
\* was taken live, ends with the message posted since
C20_Witness ==
    /\ response.user = Anonymous
    /\ response.code = 200
    /\ response.body # <<>>
    /\ response.body[Len(response.body)] = Len(chat)
    /\ chat[Len(chat)].stream = 1
    /\ streams[1].status = "live"

\* the chat rows of stream s with fewer than ChatPage newer rows of the stream
LatestChat(s) ==
    {i \in ChatOf(s) :
        Cardinality({j \in ChatOf(s) :
                        chat[j].created_at > chat[i].created_at}) < ChatPage}

C21_Step ==
    \A u \in Visitors : \A s \in {1, 2} :
        messages_get(u, s) =>
            LET body == response'.body
                n == Cardinality(ChatOf(s))
            IN /\ response'.code = 200
               /\ Len(body) = IF n < ChatPage THEN n ELSE ChatPage
               /\ Range(body) = LatestChat(s)
               /\ \A k \in 1..(Len(body) - 1) :
                     chat[body[k]].created_at < chat[body[k + 1]].created_at

\* C21: a chat retrieval for a stream holding n messages returns exactly the
\* min(n, ChatPage) most recently created messages of that stream, in
\* ascending order of creation.
C21_LatestPageAscending == [][C21_Step]_vars

\* a retrieval of a stream that holds more than ChatPage messages returned a
\* full page that leaves the oldest message out
C21_Witness ==
    /\ response.code = 200
    /\ response.user = Anonymous
    /\ Len(response.body) = ChatPage
    /\ Cardinality(ChatOf(1)) > ChatPage
    /\ response.body[ChatPage] = Len(chat)
    /\ 1 \notin Range(response.body)

\* a profile request of browser b ends in the redirect to the login URL:
\* nothing is rendered, no view is entered and no profile is written
RedirectedToLogin(b) ==
    /\ response' = Response(b, 302, LoginUrl)
    /\ web'[b] = IdleWeb
    /\ profiles' = profiles

C22_Step ==
    \A b \in Browsers :
        /\ logout_view(b) => session'[b] = Anonymous
        /\ (session[b] = Anonymous /\ session'[b] # Anonymous)
              => \E u \in Users : LoginView(b, u, TRUE)
        /\ \A method \in {"GET", "POST"} : \A bio \in Bios : \A valid \in BOOLEAN :
              session[b] = Anonymous /\ login_required(b, method, bio, valid)
                  => RedirectedToLogin(b)
        /\ profile(b) => web[b].user # Anonymous

\* C22: a logout leaves the browser's session unauthenticated, the session
\* stays so until a successful login in that browser, and every profile
\* request made in that time is redirected to the login URL without rendering
\* or updating the profile.
C22_LoggedOutIsRedirected == [][C22_Step]_vars

\* browser p, logged in at the start, has been logged out and its profile
\* request was redirected, while browser q is still logged in
C22_Witness ==
    /\ response = Response("p", 302, LoginUrl)
    /\ session["p"] = Anonymous
    /\ session["q"] # Anonymous

\* the rows whose read_at goes from null to a timestamp on this step
NewlyRead == {i \in 1..Len(messages) : messages[i].read_at = 0
                                       /\ messages'[i].read_at # 0}

C23_Step ==
    \A c \in Conns :
        /\ mark_messages_read(c) =>
              /\ NewlyRead = UnreadFor(ConnUser[c], ws[c].conv)
              /\ \A i \in 1..Len(messages) :
                    i \notin NewlyRead => messages'[i] = messages[i]
              /\ ws'[c].count = Cardinality(NewlyRead)
        /\ notify_read(c) =>
              \A d \in Conns : \A i \in (Len(chan[d]) + 1)..Len(chan'[d]) :
                  chan'[d][i].type = "messages_read"
                      => chan'[d][i].count = ws[c].count

\* C23: the update of a mark_read marks exactly the conversation's messages
\* with null read_at and a sender other than the caller, and the count the
\* call returns and the messages_read event carries is the number of rows it
\* marked, whatever runs between its steps.
C23_CountIsRowsMarked == [][C23_Step]_vars

\* connection c takes an inbound frame: receive() starts
FrameArrives(c) ==
    \/ \E text \in RawFrames : receive(c, text)
    \/ \E k \in FrameConvIds : \E raw \in Contents :
          handle_chat_message(c, k, raw, "text")
    \/ \E k \in FrameConvIds : \E is_typing \in BOOLEAN :
          handle_typing(c, k, is_typing)
    \/ \E k \in FrameConvIds : handle_mark_read(c, k)

\* connect() accepts the socket
Connects(c) ==
    /\ \E token \in TokensOf(c) : handshake(c, token)
    /\ ws'[c].pc = "idle"

\* the last_seen of u, and of nobody else, is written
Touched(u) ==
    /\ last_seen'[u] > last_seen[u]
    /\ \A v \in Users \ {u} : last_seen'[v] = last_seen[v]

C24_Step ==
    /\ \A c \in Conns : FrameArrives(c) \/ Connects(c) => Touched(ConnUser[c])
    /\ last_seen' # last_seen
          => \E c \in Conns : FrameArrives(c) \/ Connects(c)

\* C24: the step on which a chat connection takes an inbound frame of any
\* kind, and the step on which a connect is accepted, write the last_seen of
\* the connection's user; nothing else writes a last_seen, so no event changes
\* the last_seen of another user.
C24_FrameTouchesSender == [][C24_Step]_vars

\* B's socket died on a frame that is not a JSON object, after B's last_seen
\* was written for it, and A's second socket connected
C24_Witness ==
    /\ ws["b1"].pc = "crashed"
    /\ last_seen["B"] = 2
    /\ ws["a2"].pc = "idle"
    /\ last_seen["A"] = 2
    /\ last_seen["C"] = 0

\* C25: a conversation that is a message request still pending holds messages
\* of at most one sender, in every reachable state.
C25_PendingHasOneSender ==
    \A k \in 1..Len(conversations) :
        conversations[k].is_request /\ conversations[k].request_status = "pending"
            => Cardinality(SendersOf(k)) <= 1

\* the initiator of a request, as message_requests_view tells: the sender of
\* its first message
Initiator(k) == messages[first_message(k)].sender

PendingRequest(k) ==
    /\ conversations[k].is_request
    /\ conversations[k].request_status = "pending"
    /\ MessagesOf(k) # {}

\* a step of a request of u that is a reply to, or an accept or decline of,
\* conversation k
ActsOn(u, k) ==
    \/ \E action \in {"accept", "decline"} : conversation_action_view(u, k, action)
    \/ rest[u].conv = k /\ conversation_messages_accept(u)
    \/ \E c \in Conns : ConnUser[c] = u /\ ws[c].conv = k /\ save_message(c)

C26_Step ==
    \A k \in 1..Len(conversations) :
        PendingRequest(k) =>
            /\ conversations'[k].request_status # "pending"
                  => \E u \in conversations[k].participants \ {Initiator(k)} :
                        ActsOn(u, k)
            /\ \A action \in {"accept", "decline"} :
                  conversation_action_view(Initiator(k), k, action)
                      => conversations'[k].request_status = "pending"

\* C26: a pending message request leaves the pending state only on a step of
\* a reply, accept or decline by the participant who did not initiate it; an
\* accept or decline sent by the initiator leaves request_status pending.
C26_OnlyRecipientDecides == [][C26_Step]_vars

C27_Step ==
    \A s \in 1..Len(streams) :
        LET host == streams[s].host
        IN /\ streams'[s].status # streams[s].status
                 => \/ /\ streams[s].status = "scheduled"
                       /\ streams'[s].status = "live"
                       /\ start(host)
                    \/ /\ streams[s].status = "live"
                       /\ streams'[s].status = "ended"
                       /\ end(host)
           /\ \A u \in Users :
                 /\ go_live(u, s) /\ rest'[u].pc = "start"
                       => u = host /\ streams[s].status = "scheduled"
                 /\ end_stream(u, s) /\ rest'[u].pc = "end"
                       => u = host /\ streams[s].status = "live"

\* C27: the status of a livestream changes only from scheduled to live, on
\* the host's go_live, and from live to ended, on the host's end_stream;
\* go_live is accepted only from the host of a scheduled stream and end_stream
\* only from the host of a live one; ended is final and no join, leave, like,
\* chat or signal post changes the status.
C27_StatusOnlyForward == [][C27_Step]_vars

\* no request is between two of its statements
Quiescent == \A u \in Users : rest[u].pc = "idle"

C28_Counts ==
    \A s \in 1..Len(streams) :
        /\ streams[s].viewer_count >= 0
        /\ Quiescent => streams[s].peak_viewers >= streams[s].viewer_count

\* the count moves by one, on the save of a join or of a leave that found it
\* positive, and the peak never goes down
C28_Step ==
    \A s \in 1..Len(streams) :
        /\ streams'[s].peak_viewers >= streams[s].peak_viewers
        /\ streams'[s].viewer_count # streams[s].viewer_count
              => \E u \in Users :
                    \/ /\ join_save(u)
                       /\ streams'[s].viewer_count = streams[s].viewer_count + 1
                    \/ /\ leave_save(u)
                       /\ rest[u].inst.viewer_count > 0
                       /\ streams'[s].viewer_count = streams[s].viewer_count - 1

\* C28: viewer_count is never negative, peak_viewers never decreases, the
\* count changes only by the +1 of a join and the -1 of a leave that found it
\* positive (so it equals completed joins minus such leaves once all requests
\* are over), and then peak_viewers >= viewer_count.
C28_ViewerAccounting == [](C28_Counts) /\ [][C28_Step]_vars

\* the memberships of user v, in every set of every item
Memberships(v) == [x \in Items |-> <<v \in likes[x], v \in dislikes[x]>>]

C29_NeverBoth ==
    \A x \in Items : likes[x] \cap dislikes[x] = {}

\* what the steps of a reaction request of u do to u's own membership
C29_Own(u) ==
    LET x == Item(rest[u].target)
        liking == rest[u].op = "like"
        mine == IF liking THEN likes ELSE dislikes
        other == IF liking THEN dislikes ELSE likes
    IN /\ \A view \in {"PostViewSet", "CommentViewSet", "page"} :
          \A kind \in {"like", "dislike"} :
             react(u, view, kind) =>
                 /\ rest'[u].pc = "remove_own" <=> u \in Own(kind, Item(view))
                 /\ UNCHANGED reactions
       /\ remove_own(u) =>
             /\ u \in mine[x]
             /\ u \notin likes'[x] \cup dislikes'[x]
       /\ add_own(u) =>
             /\ u \notin mine[x]
             /\ u \in (IF liking THEN likes' ELSE dislikes')[x]
             /\ u \notin (IF liking THEN dislikes' ELSE likes')[x]

C29_Step ==
    \A u \in Users :
        /\ C29_Own(u)
        /\ Memberships(u)' # Memberships(u)
              => /\ remove_own(u) \/ remove_other(u) \/ add_own(u)
                 /\ \A v \in Users \ {u} : Memberships(v)' = Memberships(v)
                 /\ \A x \in Items \ {Item(rest[u].target)} :
                       likes'[x] = likes[x] /\ dislikes'[x] = dislikes[x]

\* C29: no user is ever in both the likes and the dislikes of a post or a
\* comment; a like of an item the user likes removes the like, a like of any
\* other item leaves the user in its likes and out of its dislikes (the same
\* for dislike with the sets exchanged), and a request changes nothing but
\* its own user's membership in the sets of its own item.
C29_LikeXorDislike == [](C29_NeverBoth) /\ [][C29_Step]_vars

\* B, who had disliked the post, now likes it, and A's like of it is gone
C29_Witness ==
    /\ "B" \in likes["post"]
    /\ "B" \notin dislikes["post"]
    /\ "A" \notin likes["post"]
    /\ \A u \in Users : rest[u].pc = "idle"

\* the payment of reference r has activated its subscription: a request for
\* r is past update_or_create, or its confirmation e-mail is out
Activated(r) ==
    \/ \E i \in DOMAIN emails : emails[i] = r
    \/ \E u \in Users : rest[u].pc = "confirm" /\ rest[u].ref = r
    \/ hook.pc = "confirm" /\ hook.ref = r

\* the step is one of a verify_payment call or of a webhook for reference r
Handles(r) ==
    \/ \E u \in Users : rest[u].ref = r /\ rest'[u] # rest[u]
    \/ hook.ref = r /\ hook' # hook

\* the confirmation e-mails sent for reference r
Confirmations(r) == {i \in DOMAIN emails : emails[i] = r}

C30_Step ==
    \A r \in References :
        /\ payments[r].status = "success" => payments'[r].status = "success"
        /\ Activated(r) /\ Handles(r) => subscriptions' = subscriptions

\* C30: each payment activates the subscription at most once. A payment whose
\* status is success stays success; once a payment has activated the
\* subscription, no step of a verify_payment call or of a charge.success
\* webhook for the same reference changes the subscription table (tier,
\* status, expires_at, cancelled_at), whatever the interleaving; and no
\* reference gets a second confirmation e-mail.
C30_ActivatesOnce ==
    /\ [](\A r \in References : Cardinality(Confirmations(r)) <= 1)
    /\ [][C30_Step]_vars

====
